---- MODULE Spec2Model ----
(***************************************************************************)
(* Verification model of the stargz-snapshotter core:                      *)
(*   - package reader  (src/unnamed/part_000, Go part from line 131):      *)
(*       file.ReadAt, Reader.CacheTarGzWithReader over a chunk cache        *)
(*   - package remote  (src/stargz/remote/resolver.go):                    *)
(*       fetcher.fetch, Resolver.resolve / Resolve / Refresh               *)
(* Every action is one step of a handler of the source; shared state       *)
(* (cache, transport pool, blob) is touched in exactly one place per step. *)
(***************************************************************************)
EXTENDS Integers, Sequences, FiniteSets, TLC

VARIABLES
    \* package reader
    cache,      \* Reader.cache: chunk ID -> [present, data]        (cache.BlobCache)
    ra,         \* one record per concurrent caller of file.ReadAt
    ct,         \* the caller of Reader.CacheTarGzWithReader
    toc,        \* the landmarks of the layer's TOC
    pf,         \* the caller of Reader.PrefetchWithReader
    prefetchInProgress,  \* Reader.prefetchInProgress
    condL,      \* Reader.prefetchCompletionCond.L: its holder, or "" when free
    wt,         \* one record per concurrent caller of WaitForPrefetchCompletion
    \* package remote: fetcher.fetch
    ft,         \* the caller of fetcher.fetch
    \* package remote: Resolver
    config,     \* Resolver.config[domain].Mirrors
    trPool,     \* Resolver.trPool: reference name -> transport
    trPoolMu,   \* Resolver.trPoolMu: its holder, or "" when free
    trCount,    \* transports created so far by authnTransport
    blob,       \* the blob returned by Resolve: fetcher, size, lastCheck
    fetcherMu,  \* blob.fetcherMu: its holder, or "" when free
    now,        \* what the next time.Now() reads
    rs          \* one record per concurrent caller of Resolve / Refresh

readerVars   == <<cache, ra, ct>>
prefetchVars == <<toc, pf, prefetchInProgress, condL, wt>>
fetchVars    == <<ft>>
resolverVars == <<config, trPool, trPoolMu, trCount, blob, fetcherMu, now, rs>>
vars == <<readerVars, prefetchVars, fetchVars, resolverVars>>

Min(a, b) == IF a < b THEN a ELSE b
Max(a, b) == IF a > b THEN a ELSE b

(***************************************************************************)
(* Bounds of the model.                                                     *)
(***************************************************************************)
MaxBuf == 3          \* len(p) of a ReadAt call ranges over 0..MaxBuf
MaxOff == 5          \* offset of a ReadAt call ranges over 0..MaxOff

(***************************************************************************)
(* The layer: its files, their bytes, and its TOC.  The TOC comes from the  *)
(* external stargz parser; its chunks tile every file contiguously.         *)
(***************************************************************************)
PrefetchLandmark   == ".prefetch.landmark"
NoPrefetchLandmark == ".no.prefetch.landmark"
TOCTarName         == "stargz.index.json"

\* Plaintext of the regular files of the layer (all bytes distinct and non-zero,
\* so that a misplaced or zero-filled byte is visible).
FileBytes ==
    [a |-> <<11, 12>>,
     b |-> <<21, 22, 23, 24, 25>>]

FileNames == DOMAIN FileBytes

\* TOCEntry.Digest of each file.
Digest == [a |-> "sha256:a", b |-> "sha256:b"]

\* TOC chunk entries (ChunkOffset, ChunkSize) of each file, in file order.
Chunks ==
    [a |-> << [ok |-> TRUE, ChunkOffset |-> 0, ChunkSize |-> 2] >>,
     b |-> << [ok |-> TRUE, ChunkOffset |-> 0, ChunkSize |-> 2],
              [ok |-> TRUE, ChunkOffset |-> 2, ChunkSize |-> 2],
              [ok |-> TRUE, ChunkOffset |-> 4, ChunkSize |-> 1] >>]

NoEntry == [ok |-> FALSE, ChunkOffset |-> 0, ChunkSize |-> 0]

\* stargz.Reader.Lookup(name): whether the TOC has an entry of that name.
Lookup(name) ==
    \/ name \in FileNames
    \/ name = "c" /\ toc.hasC
    \/ name = NoPrefetchLandmark /\ toc.noPrefetch
    \/ name = PrefetchLandmark /\ toc.landmark.ok

\* stargz.Reader.ChunkEntryForOffset(name, offset): the chunk entry that contains
\* the byte at offset of the named file; ok = FALSE when there is none.
ChunkEntryForOffset(name, offset) ==
    IF name \notin FileNames THEN NoEntry
    ELSE LET hit == {i \in 1..Len(Chunks[name]) :
                        /\ Chunks[name][i].ChunkOffset <= offset
                        /\ offset < Chunks[name][i].ChunkOffset + Chunks[name][i].ChunkSize}
         IN  IF hit = {} THEN NoEntry ELSE Chunks[name][CHOOSE i \in hit : TRUE]

\* genID(digest, offset, size): hex SHA-256 of "digest-offset-size".  The digest
\* holds no '-', so the formatted string, and (SHA-256 taken as collision free)
\* the ID, determines the triple: the ID is modelled as the triple.
genID(digest, offset, size) == <<digest, offset, size>>

ChunkIDs ==
    UNION {{genID(Digest[f], Chunks[f][i].ChunkOffset, Chunks[f][i].ChunkSize) :
              i \in 1..Len(Chunks[f])} : f \in FileNames}

\* The bytes [off, off+size) of a file, cut at the end of the file.
Slice(s, off, size) == SubSeq(s, off + 1, Min(Len(s), off + size))
ChunkBytes(name, ce) == Slice(FileBytes[name], ce.ChunkOffset, ce.ChunkSize)

\* A buffer of n zero bytes: make([]byte, n).
Zeros(n) == [i \in 1..n |-> 0]

(***************************************************************************)
(* The chunk cache (cache.BlobCache, an injected collaborator).             *)
(***************************************************************************)
NoData == [present |-> FALSE, data |-> <<>>]

\* cache.Fetch(id): the entry; present = FALSE stands for err != nil.
Fetch(c, id) == c[id]

\* A cache that keeps the entry it already has.
AddIfAbsent(c, id, data) ==
    IF c[id].present THEN c ELSE [c EXCEPT ![id] = [present |-> TRUE, data |-> data]]

\* cache.Add(id, data)
Add(c, id, data) == [c EXCEPT ![id] = [present |-> TRUE, data |-> data]]

\* The probe of file.ReadAt and CacheTarGzWithReader:
\*   !(err != nil || len(data) != int(ce.ChunkSize))
CacheHit(c, id, ce) ==
    /\ Fetch(c, id).present
    /\ Len(Fetch(c, id).data) = ce.ChunkSize

\* The caches a Reader may be constructed over: per chunk ID nothing, or an
\* entry cut short (a partially written entry of a persistent cache).
InitialCaches ==
    {c \in [ChunkIDs -> [present : BOOLEAN, data : {<<>>}]] : TRUE}

(***************************************************************************)
(* file.ReadAt (part_000:325-349), one record per concurrent caller.        *)
(* p holds the bytes copied so far (p[:nr]).  History fields: short, the     *)
(* call met a cache entry whose length is not the chunk's size; seen, the   *)
(* ChunkOffset of the chunk of every iteration; uerr, the error of the      *)
(* underlying read when the last step of the call was one.                  *)
(***************************************************************************)
Readers == {"r1", "r2"}

IdleRead ==
    [pc |-> "idle", name |-> "a", offset |-> 0, len |-> 0, nr |-> 0,
     p |-> <<>>, ce |-> NoEntry, n |-> 0, err |-> "", short |-> FALSE,
     seen |-> <<>>, uerr |-> ""]

\* A section reader that reads at the start of the file whatever the offset.
UnderlyingReadAtStart(name, off, size) ==
    LET got  == Slice(FileBytes[name], 0, size)
        data == got \o Zeros(size - Len(got))
    IN  {[data |-> data, err |-> ""], [data |-> data, err |-> "other"]}

\* sf.ra.ReadAt(data, ce.ChunkOffset) into data = make([]byte, ce.ChunkSize): the
\* outcomes of the underlying section reader.  It fills data with the file's
\* bytes from ChunkOffset on; it may report EOF when the read ends at the end of
\* the file, and it may fail.
UnderlyingReadAt(name, off, size) ==
    LET got  == Slice(FileBytes[name], off, size)
        data == got \o Zeros(size - Len(got))
    IN  {[data |-> data, err |-> ""], [data |-> data, err |-> "other"]}
        \cup (IF off + size >= Len(FileBytes[name])
              THEN {[data |-> data, err |-> "EOF"]} ELSE {})

\* A copy that leaves nr as it is.
CopyChunkNoAdvance(s, data) ==
    LET from == s.offset + s.nr - s.ce.ChunkOffset
        n    == Min(s.len - s.nr, Len(data) - from)
    IN  [s EXCEPT !.p = s.p \o SubSeq(data, from + 1, from + n),
                  !.pc = "loop"]

\* n := copy(p[nr:], data[offset+int64(nr)-ce.ChunkOffset:]); nr += n
CopyChunk(s, data) ==
    LET from == s.offset + s.nr - s.ce.ChunkOffset
        n    == Min(s.len - s.nr, Len(data) - from)
    IN  [s EXCEPT !.p = s.p \o SubSeq(data, from + 1, from + n),
                  !.nr = s.nr + n,
                  !.pc = "loop"]

\* A caller enters ReadAt(p, offset) on the file opened as name: nr := 0.
ReadAtCall(r) ==
    /\ ra[r].pc = "idle"
    /\ \E name \in FileNames, len \in 0..MaxBuf, offset \in 0..MaxOff :
          ra' = [ra EXCEPT ![r] = [IdleRead EXCEPT !.pc = "loop", !.name = name,
                                                   !.len = len, !.offset = offset]]
    /\ UNCHANGED <<cache, ct, prefetchVars, fetchVars, resolverVars>>

\* Lines 327-334 and, on a hit, 343-344: the loop test, the TOC lookup and the
\* cache probe of one iteration; lines 346-348 when the loop ends.
ReadAtStep(s, c) ==
    LET ce == ChunkEntryForOffset(s.name, s.offset + s.nr)
        id == genID(Digest[s.name], ce.ChunkOffset, ce.ChunkSize)
    IN  IF s.nr < s.len /\ ce.ok
        THEN IF CacheHit(c, id, ce)
             THEN CopyChunk([s EXCEPT !.ce = ce, !.uerr = "",
                                      !.seen = Append(s.seen, ce.ChunkOffset)],
                            Fetch(c, id).data)
             ELSE [s EXCEPT !.ce = ce, !.pc = "miss", !.uerr = "",
                            !.seen = Append(s.seen, ce.ChunkOffset),
                            !.short = s.short \/ Fetch(c, id).present]
        ELSE [s EXCEPT !.pc = "done", !.n = s.nr, !.err = "", !.uerr = ""]

ReadAtFetch(r) ==
    /\ ra[r].pc = "loop"
    /\ ra' = [ra EXCEPT ![r] = ReadAtStep(ra[r], cache)]
    /\ UNCHANGED <<cache, ct, prefetchVars, fetchVars, resolverVars>>

\* A ReadAt that takes every error of the underlying read, EOF too, as a failure.
ReadAtMissEOFIsError(r) ==
    /\ ra[r].pc = "miss"
    /\ LET s  == ra[r]
           id == genID(Digest[s.name], s.ce.ChunkOffset, s.ce.ChunkSize)
       IN  \E res \in UnderlyingReadAt(s.name, s.ce.ChunkOffset, s.ce.ChunkSize) :
              LET t == [s EXCEPT !.uerr = res.err]
              IN  IF res.err # ""
                  THEN /\ ra' = [ra EXCEPT ![r] = [t EXCEPT !.pc = "done", !.n = 0,
                                                            !.err = "failed to read data"]]
                       /\ UNCHANGED cache
                  ELSE /\ cache' = Add(cache, id, res.data)
                       /\ ra' = [ra EXCEPT ![r] = CopyChunk(t, res.data)]
    /\ UNCHANGED <<ct, prefetchVars, fetchVars, resolverVars>>

\* Lines 335-344 on a miss: read the chunk from the underlying reader, add it to
\* the cache and copy from it; an error other than EOF ends the call with (0, err).
ReadAtMiss(r) ==
    /\ ra[r].pc = "miss"
    /\ LET s  == ra[r]
           id == genID(Digest[s.name], s.ce.ChunkOffset, s.ce.ChunkSize)
       IN  \E res \in UnderlyingReadAt(s.name, s.ce.ChunkOffset, s.ce.ChunkSize) :
              LET t == [s EXCEPT !.uerr = res.err]
              IN  IF res.err \notin {"", "EOF"}
                  THEN /\ ra' = [ra EXCEPT ![r] = [t EXCEPT !.pc = "done", !.n = 0,
                                                            !.err = "failed to read data"]]
                       /\ UNCHANGED cache
                  ELSE /\ cache' = Add(cache, id, res.data)
                       /\ ra' = [ra EXCEPT ![r] = CopyChunk(t, res.data)]
    /\ UNCHANGED <<ct, prefetchVars, fetchVars, resolverVars>>

\* The caller takes the result; it may call again.
ReadAtReturn(r) ==
    /\ ra[r].pc = "done"
    /\ ra' = [ra EXCEPT ![r] = IdleRead]
    /\ UNCHANGED <<cache, ct, prefetchVars, fetchVars, resolverVars>>

ReadAt(r) == ReadAtCall(r) \/ ReadAtFetch(r) \/ ReadAtMiss(r) \/ ReadAtReturn(r)

(***************************************************************************)
(* Reader.CacheTarGzWithReader (part_000:264-313).                          *)
(* Its input is a prefix of the layer's tar stream: per entry one header    *)
(* and Size data bytes, cut after `cut` of these units.                     *)
(***************************************************************************)
TarEntries ==
    << [Name |-> "a", Size |-> 2],
       [Name |-> PrefetchLandmark, Size |-> 1],
       [Name |-> "b", Size |-> 5],
       [Name |-> "c", Size |-> 0],          \* an empty file; not every TOC lists it
       [Name |-> TOCTarName, Size |-> 1] >>

RECURSIVE EntryStart(_)
\* Units of the stream before the header of entry i.
EntryStart(i) == IF i <= 1 THEN 0 ELSE EntryStart(i - 1) + 1 + TarEntries[i - 1].Size

StreamLen == EntryStart(Len(TarEntries) + 1)

\* Whether the header of entry i lies within the first cut units.
HeaderAvail(i, cut) == i <= Len(TarEntries) /\ EntryStart(i) < cut

\* How many data bytes of entry i lie within the first cut units.
DataAvail(i, cut) == Max(0, Min(TarEntries[i].Size, cut - EntryStart(i) - 1))

\* io.ReadFull(tr, data) with data = make([]byte, size), the tar reader standing
\* at byte tpos of entry i: it reads on from tpos, to the end of the entry at most.
tarReadFull(i, tpos, cut, size) ==
    LET h     == TarEntries[i]
        have  == Max(0, Min(h.Size, DataAvail(i, cut)) - tpos)
        n     == Min(size, have)
        bytes == IF h.Name \in FileNames
                 THEN SubSeq(FileBytes[h.Name], tpos + 1, tpos + n)
                 ELSE Zeros(n)
    IN  [data |-> bytes \o Zeros(size - n),
         n    |-> n,
         err  |-> IF n = size THEN ""
                  ELSE IF DataAvail(i, cut) < h.Size THEN "ErrUnexpectedEOF"
                  ELSE IF n = 0 THEN "EOF" ELSE "ErrUnexpectedEOF"]

\* strings.TrimSuffix(h.Name, "/"): no entry of the layer ends in "/".
TrimSuffix(name) == name

IdleCache ==
    [pc |-> "idle", cut |-> 0, idx |-> 0, nr |-> 0, tpos |-> 0,
     ce |-> NoEntry, err |-> ""]

CacheReturn(s, err) == [s EXCEPT !.pc = "done", !.err = err]

\* Lines 265-269 on a stream of cut units: gzip.NewReader fails on an empty input.
cacheTarGzEnter(cut) ==
    IF cut = 0
    THEN CacheReturn([IdleCache EXCEPT !.cut = cut], "EOF")
    ELSE [IdleCache EXCEPT !.pc = "next", !.cut = cut]

CacheTarGzCall ==
    /\ ct.pc = "idle"
    /\ \E cut \in 0..StreamLen : ct' = cacheTarGzEnter(cut)
    /\ UNCHANGED <<cache, ra, prefetchVars, fetchVars, resolverVars>>

\* Lines 271-288: tr.Next() and the entry's name.
CacheTarGzNext ==
    /\ ct.pc = "next"
    /\ LET i == ct.idx + 1 IN
       IF i > Len(TarEntries) /\ ct.cut = StreamLen
       THEN ct' = CacheReturn(ct, "")                   \* io.EOF: break, return nil
       ELSE IF ~HeaderAvail(i, ct.cut)
       THEN \E e \in {"EOF", "ErrUnexpectedEOF"} :      \* the stream was cut here
               ct' = CacheReturn(ct, IF e = "EOF" THEN "" ELSE e)
       ELSE IF TarEntries[i].Name \in {PrefetchLandmark, NoPrefetchLandmark, TOCTarName}
       THEN ct' = [ct EXCEPT !.idx = i]                 \* continue
       ELSE IF ~Lookup(TrimSuffix(TarEntries[i].Name))
       THEN ct' = CacheReturn([ct EXCEPT !.idx = i], "failed to get TOCEntry")
       ELSE ct' = [ct EXCEPT !.idx = i, !.nr = 0, !.tpos = 0, !.pc = "chunk"]
    /\ UNCHANGED <<cache, ra, prefetchVars, fetchVars, resolverVars>>

\* Lines 289-300 and 309: the loop test, the TOC lookup and the cache probe of
\* one chunk; on a hit only nr advances.
CacheTarGzStep(s, c) ==
    LET h  == TarEntries[s.idx]
        ce == ChunkEntryForOffset(h.Name, s.nr)
        id == genID(Digest[h.Name], ce.ChunkOffset, ce.ChunkSize)
    IN  IF s.nr < h.Size /\ ce.ok
        THEN IF CacheHit(c, id, ce)
             THEN [s EXCEPT !.nr = s.nr + ce.ChunkSize]
             ELSE IF s.nr # ce.ChunkOffset
                  THEN CacheReturn(s, "invalid offset")
                  ELSE [s EXCEPT !.ce = ce, !.pc = "read"]
        ELSE [s EXCEPT !.pc = "next"]

CacheTarGzChunk ==
    /\ ct.pc = "chunk"
    /\ ct' = CacheTarGzStep(ct, cache)
    /\ UNCHANGED <<cache, ra, prefetchVars, fetchVars, resolverVars>>

\* Lines 301-309: read ce.ChunkSize bytes from the tar reader and add them under
\* the chunk's ID.
CacheTarGzRead ==
    /\ ct.pc = "read"
    /\ LET h   == TarEntries[ct.idx]
           id  == genID(Digest[h.Name], ct.ce.ChunkOffset, ct.ce.ChunkSize)
           res == tarReadFull(ct.idx, ct.tpos, ct.cut, ct.ce.ChunkSize)
       IN  IF res.err \notin {"", "EOF"}
           THEN /\ ct' = CacheReturn(ct, res.err)
                /\ UNCHANGED cache
           ELSE /\ cache' = Add(cache, id, res.data)
                /\ ct' = [ct EXCEPT !.nr = ct.nr + ct.ce.ChunkSize,
                                    !.tpos = ct.tpos + res.n,
                                    !.pc = "chunk"]
    /\ UNCHANGED <<ra, prefetchVars, fetchVars, resolverVars>>

CacheTarGzReturn ==
    /\ ct.pc = "done"
    /\ ct' = IdleCache
    /\ UNCHANGED <<cache, ra, prefetchVars, fetchVars, resolverVars>>

CacheTarGzWithReader ==
    CacheTarGzCall \/ CacheTarGzNext \/ CacheTarGzChunk \/ CacheTarGzRead
        \/ CacheTarGzReturn

(***************************************************************************)
(* Reader.PrefetchWithReader (part_000:204-239) and                         *)
(* Reader.WaitForPrefetchCompletion (part_000:241-262).                     *)
(* The layer blob is the tar stream unit by unit: offsets in the blob, the  *)
(* landmark's TOC offset and prefetchSize count the units of TarEntries.    *)
(***************************************************************************)
\* sr.Size()
LayerSize == StreamLen

\* prefetchSize ranges over 0..MaxPrefetch.
MaxPrefetch == LayerSize + 1

\* The landmark entries a TOC may hold: .prefetch.landmark where the tar stream
\* has it, or beyond the end of the layer.
NoLandmark == [ok |-> FALSE, Offset |-> 0]
Landmarks ==
    {NoLandmark, [ok |-> TRUE, Offset |-> EntryStart(2)],
     [ok |-> TRUE, Offset |-> LayerSize + 1]}

TOCs == [noPrefetch : BOOLEAN, landmark : Landmarks, hasC : BOOLEAN]

\* The TOC of the layer of TarEntries.
PlainTOC == [noPrefetch |-> FALSE, landmark |-> [ok |-> TRUE, Offset |-> EntryStart(2)],
             hasC |-> TRUE]

\* errors.Wrap(err, msg) on the errors of package reader ("" is nil).
Wrap(err, msg) == IF err = "" THEN "" ELSE msg

\* pf: where the caller of PrefetchWithReader stands.  size is prefetchSize after
\* lines 211-224, read the bytes read from sr, cerr what CacheTarGzWithReader
\* returned, ret what PrefetchWithReader returns, exit the path it leaves by.
\* History fields: was is the cache at entry; started and exited tell that a
\* call has begun, has returned, on this Reader.
IdlePrefetch ==
    [pc |-> "idle", prefetchSize |-> 0, size |-> 0, read |-> 0, cerr |-> "",
     ret |-> "", exit |-> "", was |-> [id \in ChunkIDs |-> NoData],
     started |-> FALSE, exited |-> FALSE]

\* Landmarks looked up in the other order.
prefetchPlanLandmarkFirst(t, prefetchSize, layerSize) ==
    IF t.landmark.ok
    THEN IF t.landmark.Offset > layerSize
         THEN [exit |-> "badlandmark", size |-> 0, err |-> "invalid landmark offset"]
         ELSE [exit |-> "", size |-> t.landmark.Offset, err |-> ""]
    ELSE IF t.noPrefetch
    THEN [exit |-> "noprefetch", size |-> 0, err |-> ""]
    ELSE [exit |-> "", size |-> Min(prefetchSize, layerSize), err |-> ""]

\* prefetchSize taken as the caller passed it.
prefetchPlanNoClamp(t, prefetchSize, layerSize) ==
    IF t.noPrefetch
    THEN [exit |-> "noprefetch", size |-> 0, err |-> ""]
    ELSE IF t.landmark.ok
    THEN IF t.landmark.Offset > layerSize
         THEN [exit |-> "badlandmark", size |-> 0, err |-> "invalid landmark offset"]
         ELSE [exit |-> "", size |-> t.landmark.Offset, err |-> ""]
    ELSE [exit |-> "", size |-> prefetchSize, err |-> ""]

\* Lines 211-224: what to prefetch.
prefetchPlan(t, prefetchSize, layerSize) ==
    IF t.noPrefetch
    THEN [exit |-> "noprefetch", size |-> 0, err |-> ""]
    ELSE IF t.landmark.ok
    THEN IF t.landmark.Offset > layerSize
         THEN [exit |-> "badlandmark", size |-> 0, err |-> "invalid landmark offset"]
         ELSE [exit |-> "", size |-> t.landmark.Offset, err |-> ""]
    ELSE IF prefetchSize > layerSize
    THEN [exit |-> "", size |-> layerSize, err |-> ""]
    ELSE [exit |-> "", size |-> prefetchSize, err |-> ""]

\* io.ReadFull(sr, prefetchBytes) with len(prefetchBytes) = n <= sr.Size(): all
\* n bytes, or an I/O error after fewer.
ReadFullLayer(n) ==
    {[n |-> n, err |-> ""]}
    \cup {[n |-> k, err |-> "read"] : k \in {0, n - 1} \cap 0..(n - 1)}

\* A prefetch that reports a stream cut short.
prefetchResultStrict(err) == Wrap(err, "error occurred during caching")

\* Lines 235-238: what PrefetchWithReader returns for the error of
\* CacheTarGzWithReader.
prefetchResult(err) ==
    IF err # "EOF" /\ err # "ErrUnexpectedEOF"
    THEN Wrap(err, "error occurred during caching")
    ELSE ""

Waiters == {"w1", "w2"}

\* wt[w]: pc is where the caller of WaitForPrefetchCompletion stands (in the
\* select, between the two statements of the timeout case, returned), g where
\* the goroutine of waitUntilPrefetching stands, err what the call returned.
\* History fields: by tells whose Broadcast woke the goroutine, after that the
\* call was made when a PrefetchWithReader had returned and none was running.
IdleWait == [pc |-> "idle", g |-> "none", err |-> "", by |-> "", after |-> FALSE]

\* A condition that wakes one waiter, the caller's own first.
Signal(w, by) ==
    LET waiting == {x \in Waiters : w[x].g = "wait"}
        one     == IF by \in waiting THEN by ELSE CHOOSE x \in waiting : TRUE
    IN  [x \in Waiters |->
            IF waiting # {} /\ x = one
            THEN [w[x] EXCEPT !.g = "woken", !.by = by] ELSE w[x]]

\* prefetchCompletionCond.Broadcast(): every goroutine in Wait is woken; each
\* returns from Wait once it has the lock again.
Broadcast(w, by) ==
    [x \in Waiters |->
        IF w[x].g = "wait" THEN [w[x] EXCEPT !.g = "woken", !.by = by] ELSE w[x]]

\* ---- PrefetchWithReader --------------------------------------------------
\* Line 205: gr.prefetchInProgress = true.
PrefetchCall(sizes) ==
    /\ pf.pc = "idle"
    /\ \E prefetchSize \in sizes :
          pf' = [IdlePrefetch EXCEPT !.pc = "lookup", !.prefetchSize = prefetchSize,
                                     !.was = cache, !.started = TRUE,
                                     !.exited = pf.exited]
    /\ prefetchInProgress' = TRUE
    /\ UNCHANGED <<readerVars, toc, condL, wt, fetchVars, resolverVars>>

\* Lines 211-224.
PrefetchLookup ==
    /\ pf.pc = "lookup"
    /\ LET plan == prefetchPlan([noPrefetch |-> Lookup(NoPrefetchLandmark),
                                 landmark |-> IF Lookup(PrefetchLandmark)
                                              THEN toc.landmark ELSE NoLandmark],
                                pf.prefetchSize, LayerSize)
       IN  pf' = IF plan.exit # ""
                 THEN [pf EXCEPT !.pc = "clear", !.exit = plan.exit, !.ret = plan.err]
                 ELSE [pf EXCEPT !.pc = "read", !.size = plan.size]
    /\ UNCHANGED <<readerVars, toc, prefetchInProgress, condL, wt, fetchVars,
                   resolverVars>>

\* Lines 228-234: read the prefix; on success call CacheTarGzWithReader on it.
PrefetchRead ==
    /\ pf.pc = "read"
    /\ ct.pc = "idle"
    /\ \E res \in ReadFullLayer(pf.size) :
          IF res.err # "" /\ res.err # "EOF"
          THEN /\ pf' = [pf EXCEPT !.pc = "clear", !.read = res.n, !.exit = "read",
                                   !.ret = Wrap(res.err, "failed to prefetch layer data")]
               /\ UNCHANGED ct
          ELSE /\ pf' = [pf EXCEPT !.pc = "cache", !.read = res.n]
               /\ ct' = cacheTarGzEnter(res.n)
    /\ UNCHANGED <<cache, ra, toc, prefetchInProgress, condL, wt, fetchVars,
                   resolverVars>>

\* Lines 234-238: CacheTarGzWithReader has returned.
PrefetchCached ==
    /\ pf.pc = "cache"
    /\ ct.pc = "done"
    /\ pf' = [pf EXCEPT !.pc = "clear", !.cerr = ct.err, !.ret = prefetchResult(ct.err),
                        !.exit = IF prefetchResult(ct.err) = "" THEN "success"
                                 ELSE "caching"]
    /\ ct' = IdleCache
    /\ UNCHANGED <<cache, ra, toc, prefetchInProgress, condL, wt, fetchVars,
                   resolverVars>>

\* An exit that leaves the flag as it is.
PrefetchClearSkip ==
    /\ pf.pc = "clear"
    /\ pf' = [pf EXCEPT !.pc = "bcast"]
    /\ UNCHANGED <<readerVars, toc, prefetchInProgress, condL, wt, fetchVars,
                   resolverVars>>

\* Line 207, deferred: gr.prefetchInProgress = false.
PrefetchClear ==
    /\ pf.pc = "clear"
    /\ pf' = [pf EXCEPT !.pc = "bcast"]
    /\ prefetchInProgress' = FALSE
    /\ UNCHANGED <<readerVars, toc, condL, wt, fetchVars, resolverVars>>

\* Line 208, deferred: Broadcast(); then PrefetchWithReader returns.
PrefetchBroadcast ==
    /\ pf.pc = "bcast"
    /\ pf' = [pf EXCEPT !.pc = "done", !.exited = TRUE]
    /\ wt' = Broadcast(wt, "pf")
    /\ UNCHANGED <<readerVars, toc, prefetchInProgress, condL, fetchVars, resolverVars>>

\* The caller takes the result; it may call again.
PrefetchReturn ==
    /\ pf.pc = "done"
    /\ pf' = [IdlePrefetch EXCEPT !.started = pf.started, !.exited = pf.exited]
    /\ UNCHANGED <<readerVars, toc, prefetchInProgress, condL, wt, fetchVars,
                   resolverVars>>

PrefetchWithReader(sizes) ==
    PrefetchCall(sizes) \/ PrefetchLookup \/ PrefetchRead \/ PrefetchCached
        \/ PrefetchClear \/ PrefetchBroadcast \/ PrefetchReturn

\* ---- WaitForPrefetchCompletion -------------------------------------------
\* Lines 242-254: the goroutine is started and the caller enters the select.
WaitCall(w) ==
    /\ wt[w].pc = "idle"
    /\ wt' = [wt EXCEPT ![w] =
                [IdleWait EXCEPT !.pc = "select", !.g = "test",
                                 !.after = pf.exited /\ pf.pc \in {"idle", "done"}]]
    /\ UNCHANGED <<readerVars, toc, pf, prefetchInProgress, condL, fetchVars,
                   resolverVars>>

\* Line 245: if gr.prefetchInProgress.
WaitTest(w) ==
    /\ wt[w].g = "test"
    /\ wt' = [wt EXCEPT ![w].g = IF prefetchInProgress THEN "lock" ELSE "send"]
    /\ UNCHANGED <<readerVars, toc, pf, prefetchInProgress, condL, fetchVars,
                   resolverVars>>

\* Line 246: prefetchCompletionCond.L.Lock().
WaitLock(w) ==
    /\ wt[w].g = "lock"
    /\ condL = ""
    /\ condL' = w
    /\ wt' = [wt EXCEPT ![w].g = "locked"]
    /\ UNCHANGED <<readerVars, toc, pf, prefetchInProgress, fetchVars, resolverVars>>

\* Line 247: Wait() unlocks L and suspends the goroutine.
WaitWait(w) ==
    /\ wt[w].g = "locked"
    /\ condL' = ""
    /\ wt' = [wt EXCEPT ![w].g = "wait"]
    /\ UNCHANGED <<readerVars, toc, pf, prefetchInProgress, fetchVars, resolverVars>>

\* Line 247: the woken goroutine locks L again and Wait() returns.
WaitWake(w) ==
    /\ wt[w].g = "woken"
    /\ condL = ""
    /\ condL' = w
    /\ wt' = [wt EXCEPT ![w].g = "unlock"]
    /\ UNCHANGED <<readerVars, toc, pf, prefetchInProgress, fetchVars, resolverVars>>

\* Line 248: L.Unlock().
WaitUnlock(w) ==
    /\ wt[w].g = "unlock"
    /\ condL' = ""
    /\ wt' = [wt EXCEPT ![w].g = "send"]
    /\ UNCHANGED <<readerVars, toc, pf, prefetchInProgress, fetchVars, resolverVars>>

\* Lines 250 and 259-260: ch <- struct{}{} meets the select, which returns nil;
\* once the caller has taken the timeout case nobody receives and the goroutine
\* stays blocked on ch.
WaitSend(w) ==
    /\ wt[w].g = "send"
    /\ wt' = [wt EXCEPT ![w] =
                IF wt[w].pc = "select"
                THEN [wt[w] EXCEPT !.pc = "done", !.err = "", !.g = "end"]
                ELSE [wt[w] EXCEPT !.g = "leaked"]]
    /\ UNCHANGED <<readerVars, toc, pf, prefetchInProgress, condL, fetchVars,
                   resolverVars>>

\* Lines 255-256: the timer fires and gr.prefetchInProgress = false.  The timeout
\* is the caller's (it may be zero): the timer can fire wherever the goroutine
\* stands, as long as the select has not received from ch.
WaitTimeout(w) ==
    /\ wt[w].pc = "select"
    /\ prefetchInProgress' = FALSE
    /\ wt' = [wt EXCEPT ![w].pc = "tbcast"]
    /\ UNCHANGED <<readerVars, toc, pf, condL, fetchVars, resolverVars>>

\* Lines 257-258: Broadcast(); return the timeout error.
WaitTimeoutBroadcast(w) ==
    /\ wt[w].pc = "tbcast"
    /\ wt' = [Broadcast(wt, w) EXCEPT ![w].pc = "done", ![w].err = "timeout"]
    /\ UNCHANGED <<readerVars, toc, pf, prefetchInProgress, condL, fetchVars,
                   resolverVars>>

\* The caller takes the result.  The model follows one goroutine per caller: the
\* caller calls again once the goroutine of its last call has ended or is
\* blocked on its channel.
WaitReturn(w) ==
    /\ wt[w].pc = "done"
    /\ wt[w].g \in {"end", "leaked"}
    /\ wt' = [wt EXCEPT ![w] = IdleWait]
    /\ UNCHANGED <<readerVars, toc, pf, prefetchInProgress, condL, fetchVars,
                   resolverVars>>

WaitForPrefetchCompletion(w) ==
    WaitCall(w) \/ WaitTest(w) \/ WaitLock(w) \/ WaitWait(w) \/ WaitWake(w)
        \/ WaitUnlock(w) \/ WaitSend(w) \/ WaitTimeout(w) \/ WaitTimeoutBroadcast(w)
        \/ WaitReturn(w)

PrefetchIdle ==
    /\ pf = IdlePrefetch
    /\ prefetchInProgress = FALSE
    /\ condL = ""
    /\ wt = [w \in Waiters |-> IdleWait]

(***************************************************************************)
(* Errors.  An error value is the chain of its messages, outermost first;   *)
(* nil is the empty chain.                                                   *)
(***************************************************************************)
nil == <<>>

\* fmt.Errorf(msg)
Errorf(msg) == <<msg>>

\* errors.Wrapf(err, msg) of github.com/pkg/errors: nil when err is nil.
Wrapf(err, msg) == IF err = nil THEN nil ELSE <<msg>> \o err

(***************************************************************************)
(* fetcher.fetch (resolver.go:346-433) against a blob of MaxPos+1 bytes.    *)
(***************************************************************************)
MaxPos == 2          \* regions lie within the bytes 0..MaxPos of the blob
MaxReq == 2          \* a fetch asks for 1..MaxReq regions

BlobData == [i \in 1..(MaxPos + 1) |-> 100 + i]

\* region{b, e}, an inclusive interval.
Regions == {reg \in [b : 0..MaxPos, e : 0..MaxPos] : reg.b <= reg.e}

\* region.size()
size(reg) == reg.e - reg.b + 1

RequestLists == UNION {[1..k -> Regions] : k \in 1..MaxReq}

\* A Range header without the dummy range.
fetchRangesNoDummy(requests) == requests

\* The Range header of lines 368-372, as the list of its ranges:
\* "bytes=0-0," then "b-e," per request, the last comma cut off.
fetchRanges(requests) == <<[b |-> 0, e |-> 0]>> \o requests

\* The map[region][]byte that fetch returns; nonnil = FALSE is the nil map.
EmptyMap == [reg \in {} |-> <<>>]
NilMap   == [nonnil |-> FALSE, m |-> EmptyMap]
MapSet(m, reg, data) == [x \in (DOMAIN m) \cup {reg} |-> IF x = reg THEN data ELSE m[x]]

\* parseRange(header) (lines 469-484) on a Content-Range header; the header is
\* given by whether the pattern "bytes B-E/..." matches it, and by B and E.
parseRange(header) ==
    IF header.ok
    THEN [reg |-> [b |-> header.b, e |-> header.e], err |-> nil]
    ELSE [reg |-> [b |-> 0, e |-> 0],
          err |-> Errorf("Content-Range doesn't have enough information")]

\* ---- the server's side -------------------------------------------------
NoResponse ==
    [StatusCode |-> 0, ContentLength |-> [ok |-> FALSE, v |-> 0],
     ContentType |-> [ok |-> FALSE, mediaType |-> ""],
     Body |-> <<>>, parts |-> <<>>, final |-> FALSE]

\* The part a server sends for one range of the Range header.
PartOf(reg) ==
    [ContentRange |-> [ok |-> TRUE, b |-> reg.b, e |-> reg.e],
     data |-> SubSeq(BlobData, reg.b + 1, reg.e + 1),
     readErr |-> FALSE]

FaithfulParts(ranges) == [i \in 1..Len(ranges) |-> PartOf(ranges[i])]

\* The multipart bodies a server may send for a Range header: one part per
\* range; or that with one part's body a byte short, its Content-Range
\* malformed, or its body failing to read; or with the first or the last part
\* left out.
PartLists(ranges) ==
    LET F == FaithfulParts(ranges) IN
    {F, Tail(F), SubSeq(F, 1, Len(F) - 1)}
    \cup {[F EXCEPT ![k].data = SubSeq(F[k].data, 1, Len(F[k].data) - 1)] : k \in 1..Len(F)}
    \cup {[F EXCEPT ![k].ContentRange.ok = FALSE] : k \in 1..Len(F)}
    \cup {[F EXCEPT ![k].readErr = TRUE] : k \in 1..Len(F)}

Multipart == [ok |-> TRUE, mediaType |-> "multipart/byteranges"]

\* The responses a server may give to the request.
Responses(ranges) ==
    \* a status other than 200 and 206
    {[NoResponse EXCEPT !.StatusCode = 404]}
    \* 200: the whole blob, the body possibly a byte short of Content-Length,
    \* Content-Length possibly unparsable
    \cup {[NoResponse EXCEPT !.StatusCode = 200, !.Body = body, !.ContentLength = cl] :
            body \in {BlobData, SubSeq(BlobData, 1, Len(BlobData) - 1)},
            cl \in {[ok |-> TRUE, v |-> Len(BlobData)], [ok |-> FALSE, v |-> 0]}}
    \* 206 with a multipart body
    \cup {[NoResponse EXCEPT !.StatusCode = 206, !.ContentType = Multipart,
                             !.parts = ps, !.final = fin] :
            ps \in PartLists(ranges), fin \in BOOLEAN}
    \* 206 with another or an unparsable Content-Type
    \cup {[NoResponse EXCEPT !.StatusCode = 206, !.ContentType = ty,
                             !.parts = FaithfulParts(ranges), !.final = TRUE] :
            ty \in {[ok |-> TRUE, mediaType |-> "application/octet-stream"],
                    [ok |-> FALSE, mediaType |-> ""]}}

\* ---- fetch ---------------------------------------------------------------
HasPrefixMultipart(mediaType) == mediaType = "multipart/byteranges"

RECURSIVE readParts(_, _, _)
\* The loop of lines 409-430 from part k on, remoteData holding the parts before.
readParts(res, k, remoteData) ==
    IF k > Len(res.parts)
    THEN IF res.final
         THEN [data |-> [nonnil |-> TRUE, m |-> remoteData], err |-> nil]  \* io.EOF: break
         ELSE [data |-> NilMap,
               err |-> Wrapf(Errorf("multipart: NextPart"),
                             "failed to read multipart response")]
    ELSE LET p   == res.parts[k]
             pr  == parseRange(p.ContentRange)
             reg == pr.reg
             \* data, err := ioutil.ReadAll(p)
             err == IF p.readErr THEN Errorf("read") ELSE nil
         IN  IF pr.err # nil
             THEN [data |-> NilMap,
                   err |-> Wrapf(pr.err, "failed to parse Content-Range")]
             ELSE IF err # nil
             THEN [data |-> NilMap, err |-> Wrapf(err, "failed to read multipart data")]
             ELSE IF Len(p.data) # size(reg)
             THEN [data |-> NilMap, err |-> Wrapf(err, "broken partial body")]
             ELSE readParts(res, k + 1, MapSet(remoteData, reg, p.data))

\* Lines 380-432: what fetch returns for response res.
fetchHandle(res) ==
    IF res.StatusCode # 200 /\ res.StatusCode # 206
    THEN [data |-> NilMap, err |-> Errorf("unexpected status code")]
    ELSE IF res.StatusCode = 200
    THEN \* size, err := strconv.ParseInt(res.Header.Get("Content-Length"), 10, 64)
         LET err == IF res.ContentLength.ok THEN nil ELSE Errorf("ParseInt")
             sz  == res.ContentLength.v
         IN  IF err # nil
             THEN [data |-> NilMap, err |-> Wrapf(err, "failed to parse Content-Length")]
             ELSE IF Len(res.Body) # sz
             THEN [data |-> NilMap, err |-> Wrapf(err, "broken response body")]
             ELSE [data |-> [nonnil |-> TRUE,
                             m |-> MapSet(EmptyMap, [b |-> 0, e |-> sz - 1], res.Body)],
                   err |-> nil]
    ELSE \* mediaType, params, err := mime.ParseMediaType(...)
         LET err == IF res.ContentType.ok THEN nil ELSE Errorf("mime")
         IN  IF err # nil \/ ~HasPrefixMultipart(res.ContentType.mediaType)
             THEN [data |-> NilMap, err |-> Wrapf(err, "invalid media type")]
             ELSE \* mr.NextPart() drops part 1; the loop starts at part 2
                  readParts(res, 2, EmptyMap)

IdleFetch ==
    [pc |-> "idle", requests |-> <<>>, ranges |-> <<>>, trips |-> 0,
     res |-> NoResponse, data |-> NilMap, err |-> nil]

\* A caller enters fetch(requests); lines 363-374 build the request.
fetchCall ==
    /\ ft.pc = "idle"
    /\ \E requests \in RequestLists :
          ft' = [IdleFetch EXCEPT !.pc = "roundtrip", !.requests = requests,
                                  !.ranges = fetchRanges(requests)]
    /\ UNCHANGED <<readerVars, prefetchVars, resolverVars>>

\* Lines 375-378: tr.RoundTrip(req) fails, or a response arrives.
fetchRoundTrip ==
    /\ ft.pc = "roundtrip"
    /\ \/ ft' = [ft EXCEPT !.pc = "done", !.trips = ft.trips + 1,
                           !.err = Wrapf(Errorf("RoundTrip"), "failed to request")]
       \/ \E res \in Responses(ft.ranges) :
             ft' = [ft EXCEPT !.pc = "handle", !.trips = ft.trips + 1, !.res = res]
    /\ UNCHANGED <<readerVars, prefetchVars, resolverVars>>

\* Lines 379-432.
fetchResponse ==
    /\ ft.pc = "handle"
    /\ LET out == fetchHandle(ft.res)
       IN  ft' = [ft EXCEPT !.pc = "done", !.data = out.data, !.err = out.err]
    /\ UNCHANGED <<readerVars, prefetchVars, resolverVars>>

\* The caller takes the result; it may call again.
fetchReturn ==
    /\ ft.pc = "done"
    /\ ft' = IdleFetch
    /\ UNCHANGED <<readerVars, prefetchVars, resolverVars>>

fetch == fetchCall \/ fetchRoundTrip \/ fetchResponse \/ fetchReturn

(***************************************************************************)
(* Resolver (resolver.go:67-344): resolve, resolveReference, Resolve,       *)
(* Refresh.  The registries are the environment: every HTTP exchange and    *)
(* every authentication picks its outcome when it happens.                  *)
(***************************************************************************)
MaxTr   == 2         \* authnTransport creates at most MaxTr transports
MaxTime == 2         \* the clock reads 0, 1, .. and stays at MaxTime

defaultChunkSize     == 50000
defaultValidInterval == 60

Procs == {"p1", "p2"}

\* The references Resolve is called with, and docker.ParseDockerRef on them.
TheDigest == "sha256:blob"
Refs == {"D/img", "bad ref"}
ParseDockerRef(ref) ==
    [ok |-> ref = "D/img", Domain |-> "D", Path |-> "img"]

\* The mirror lists a Resolver may be configured with for domain D.
MirrorLists ==
    { <<>>,
      << [Host |-> "A", Insecure |-> TRUE], [Host |-> "B", Insecure |-> FALSE] >>,
      << [Host |-> "", Insecure |-> FALSE], [Host |-> "a/b", Insecure |-> FALSE],
         [Host |-> "bad host", Insecure |-> FALSE] >> }

\* strings.Contains(h.Host, "/")
ContainsSlash(host) == host = "a/b"

\* name.ParseReference(sref, opts...) with sref = host/path: a registry name
\* must be a valid URI authority.
NoRef == [ok |-> FALSE, host |-> "", path |-> "", insecure |-> FALSE]
ParseReference(host, path, insecure) ==
    IF host = "bad host" THEN NoRef
    ELSE [ok |-> TRUE, host |-> host, path |-> path, insecure |-> insecure]

\* nref.Name(): the key of the transport pool.
Name(nref) == <<nref.host, nref.path>>

PoolNames == {<<h, "img">> : h \in {"A", "B", "D"}}

\* A transport; id = 0 is the nil RoundTripper.
NoTr == [name |-> <<"", "">>, id |-> 0]

\* Lines 223-227: the endpoint URL of a reference.
EndpointURL(ref, digest) ==
    [scheme |-> IF ref.insecure THEN "http" ELSE "https",
     registry |-> ref.host, repository |-> ref.path, digest |-> digest,
     location |-> FALSE]

NoURL == [scheme |-> "", registry |-> "", repository |-> "", digest |-> "",
          location |-> FALSE]

\* The statuses a registry answers the blob GET of redirect with: the mirrors
\* redirect to a blob store, the domain serves the blob itself; each may fail.
RedirectStatuses(host) == IF host = "D" THEN {200, 500} ELSE {307, 500}

\* redirect(endpointURL, tr) (lines 252-284) for the status the registry answers
\* with: 2xx gives the endpoint itself, 3xx with a Location header gives that
\* location, anything else (or a failed round trip) an error.
redirect(endpointURL, status) ==
    IF status \div 100 = 2 THEN [url |-> endpointURL, err |-> nil]
    ELSE IF status \div 100 = 3
    THEN [url |-> [endpointURL EXCEPT !.location = TRUE], err |-> nil]
    ELSE [url |-> NoURL, err |-> Errorf(<<"", "", "failed to access">>)]

\* The sizes the blob may have when it is probed.
BlobSizes == {1000, 1001}

\* getSize(url, tr) (lines 286-304): the outcomes of the HEAD request.
getSizeOutcomes ==
    {[size |-> sz, err |-> nil] : sz \in BlobSizes}
    \cup {[size |-> 0, err |-> Errorf(<<"", "", "failed HEAD request">>)]}

NoFetcher == [ref |-> "", digest |-> "", nref |-> NoRef, url |-> NoURL, tr |-> NoTr]

NoBlob ==
    [exists |-> FALSE, fetcher |-> NoFetcher, size |-> 0, chunkSize |-> 0,
     lastCheck |-> 0, checkInterval |-> 0, half |-> FALSE]

\* BlobConfig values passed to Resolve.
BlobConfigs ==
    {[ValidInterval |-> 0, CheckAlways |-> FALSE, ChunkSize |-> 0],
     [ValidInterval |-> 5, CheckAlways |-> TRUE, ChunkSize |-> 4]}

\* rs[p]: where caller p stands.  op is the entry point ("Resolve", "Refresh");
\* ref .. rErr are the locals of resolve; fetcher, size, err are what resolve
\* returned, and err what the entry point returned once pc = "done".
\* new is the local tr of resolveReference (the transport authnTransport made).
\* History fields: pool0 is the pool as resolveReference found it, okTr the
\* transport with which its last redirect succeeded;
\* tried logs the outcome of each host of the loop, contacted
\* the hosts a request was sent to, probe the host and result of the last
\* successful size probe, was the blob as it was when Refresh took the lock.
IdleProc ==
    [pc |-> "idle", op |-> "", ref |-> "", hosts |-> <<>>, i |-> 0,
     nref |-> NoRef, url |-> NoURL, tr |-> NoTr, size |-> 0, rErr |-> nil,
     fetcher |-> NoFetcher, err |-> nil,
     tried |-> <<>>, contacted |-> <<>>, probe |-> [host |-> "", size |-> 0],
     was |-> NoBlob,
     new |-> NoTr, pool0 |-> <<>>, okTr |-> NoTr]

\* A mutex that never makes a caller wait.
CanLockAlways(mu) == TRUE

\* sync.Mutex.Lock() returns only once the mutex is free.
CanLock(mu) == mu = ""

\* ---- resolve (lines 142-216) ---------------------------------------------
\* Lines 204-216: what resolve returns after the loop.
resolveResult(s) ==
    IF s.rErr # nil
    THEN [s EXCEPT !.pc = "ret", !.fetcher = NoFetcher, !.size = 0,
                   !.err = Wrapf(s.rErr, <<"", "", "cannot resolve ref">>)]
    ELSE [s EXCEPT !.pc = "ret", !.err = nil,
                   !.fetcher = [ref |-> s.ref, digest |-> TheDigest, nref |-> s.nref,
                                url |-> s.url, tr |-> s.tr]]

\* The error of host i put in the place of the errors before it.
hostErrReplace(s, what, outcome) ==
    [s EXCEPT !.rErr = Errorf(<<"host", s.hosts[s.i].Host, what>>),
              !.tried = Append(s.tried, outcome)]

\* rErr = errors.Wrapf(rErr, "host %q: ...", h.Host, ...) of host i.
hostErr(s, what, outcome) ==
    [s EXCEPT !.rErr = Wrapf(s.rErr, <<"host", s.hosts[s.i].Host, what>>),
              !.tried = Append(s.tried, outcome)]

RECURSIVE resolveLoop(_)
\* Lines 157-173 and 204-216: from the loop test on host i up to the call of
\* resolveReference for a host whose reference parses (pc = "rr"), or to the
\* return of resolve when no host is left (pc = "ret").
resolveLoop(s) ==
    IF s.i > Len(s.hosts) THEN resolveResult(s)
    ELSE LET h    == s.hosts[s.i]
             nref == ParseReference(h.Host, ParseDockerRef(s.ref).Path, h.Insecure)
         IN  IF h.Host = "" \/ ContainsSlash(h.Host)
             THEN resolveLoop([hostErr(s, "mirror must be a domain name", "badhost")
                                  EXCEPT !.i = s.i + 1])
             ELSE IF ~nref.ok
             THEN resolveLoop([hostErr(s, "failed to parse ref", "parse")
                                  EXCEPT !.i = s.i + 1])
             ELSE [s EXCEPT !.nref = nref, !.pc = "rr"]

\* continue: on to the next host.
wrapHostErr(s, what, outcome) ==
    resolveLoop([hostErr(s, what, outcome) EXCEPT !.i = s.i + 1])

\* The domain tried before the mirrors.
resolveHostsDomainFirst(mirrors, domain) ==
    <<[Host |-> domain, Insecure |-> FALSE]>> \o mirrors

\* Lines 153-155: the hosts to try, the mirrors and then the domain.
resolveHosts(mirrors, domain) ==
    Append(mirrors, [Host |-> domain, Insecure |-> FALSE])

\* Lines 149-157: resolve(ref, digest) up to its first call of resolveReference.
resolveEnter(s, mirrors) ==
    LET named == ParseDockerRef(s.ref)
    IN  IF ~named.ok
        THEN [s EXCEPT !.pc = "ret", !.fetcher = NoFetcher, !.size = 0,
                       !.err = Errorf(<<"", "", "invalid reference format">>)]
        ELSE resolveLoop([s EXCEPT !.i = 1,
                                   !.hosts = resolveHosts(mirrors, named.Domain),
                                   !.rErr = Errorf(<<"", "", "failed to resolve">>)])

\* Line 219: resolveReference takes the pool mutex.
resolveReferenceLock(p) ==
    /\ rs[p].pc = "rr"
    /\ CanLock(trPoolMu)
    /\ trPoolMu' = p
    /\ rs' = [rs EXCEPT ![p].pc = "rrbody"]
    /\ UNCHANGED <<readerVars, prefetchVars, fetchVars, config, trPool, trCount, blob, fetcherMu, now>>

\* Lines 222-250 of resolveReference, under the pool mutex: st1 is the status the
\* registry answers the pooled transport with, authOK whether authnTransport
\* succeeds, st2 the status it answers the new transport with.
resolveReferenceOutcome(pool, count, nref, st1, authOK, st2) ==
    LET endpointURL == EndpointURL(nref, TheDigest)
        pooled      == pool[Name(nref)]
        first       == redirect(endpointURL, st1)
        tr          == [name |-> Name(nref), id |-> count + 1]
        second      == redirect(endpointURL, st2)
    IN  IF pooled.id # 0 /\ first.err = nil
        THEN [url |-> first.url, err |-> nil, pool |-> pool, count |-> count]
        ELSE IF ~authOK
        THEN [url |-> NoURL, err |-> Errorf(<<"", "", "failed to resolve the reference">>),
              pool |-> pool, count |-> count]
        ELSE IF second.err # nil
        THEN [url |-> NoURL, err |-> second.err, pool |-> pool, count |-> count + 1]
        ELSE [url |-> second.url, err |-> nil,
              pool |-> [pool EXCEPT ![Name(nref)] = tr], count |-> count + 1]

\* Lines 176-181 with the body of resolveReference; the mutex is released on
\* return.
resolveReferenceBody(p) ==
    /\ rs[p].pc = "rrbody"
    /\ \E st1 \in RedirectStatuses(rs[p].nref.host), authOK \in BOOLEAN,
          st2 \in RedirectStatuses(rs[p].nref.host) :
          LET s   == rs[p]
              out == resolveReferenceOutcome(trPool, trCount, s.nref, st1, authOK, st2)
              t   == [s EXCEPT !.contacted = Append(s.contacted, s.hosts[s.i].Host)]
          IN  /\ out.count <= MaxTr
              /\ trPool' = out.pool
              /\ trCount' = out.count
              /\ rs' = [rs EXCEPT ![p] =
                          IF out.err # nil
                          THEN wrapHostErr(t, "failed to resolve ref", "redirect")
                          ELSE [t EXCEPT !.url = out.url, !.pc = "pool"]]
    /\ trPoolMu' = ""
    /\ UNCHANGED <<readerVars, prefetchVars, fetchVars, config, blob, fetcherMu, now>>

\* ---- resolveReference statement by statement (lines 218-250) --------------
\* The same body, one action per statement that touches the pool or the
\* registry, for the callers that run it concurrently.  The mutex taken at line
\* 219 is released by the deferred Unlock of line 220 at every return.

\* Lines 222-230: the endpoint URL and the lookup of the pooled transport.
resolveReferenceLookup(p) ==
    /\ rs[p].pc = "rrbody"
    /\ LET s == rs[p]
           t == [s EXCEPT !.pool0 = trPool, !.okTr = NoTr, !.new = NoTr,
                          !.contacted = Append(s.contacted, s.hosts[s.i].Host)]
       IN  rs' = [rs EXCEPT ![p] =
                    [t EXCEPT !.pc = IF trPool[Name(s.nref)].id # 0
                                     THEN "rrpooled" ELSE "rrauthn"]]
    /\ UNCHANGED <<readerVars, prefetchVars, fetchVars, config, trPool, trPoolMu, trCount,
                   blob, fetcherMu, now>>

\* Lines 231-234: redirect with the pooled transport; on success return its URL.
resolveReferencePooled(p) ==
    /\ rs[p].pc = "rrpooled"
    /\ \E st \in RedirectStatuses(rs[p].nref.host) :
          LET s   == rs[p]
              out == redirect(EndpointURL(s.nref, TheDigest), st)
          IN  IF out.err = nil
              THEN /\ rs' = [rs EXCEPT ![p] =
                              [s EXCEPT !.url = out.url, !.pc = "pool",
                                        !.okTr = trPool[Name(s.nref)],
                                        !.pool0 = <<>>]]
                   /\ trPoolMu' = ""
              ELSE /\ rs' = [rs EXCEPT ![p].pc = "rrauthn"]
                   /\ UNCHANGED trPoolMu
    /\ UNCHANGED <<readerVars, prefetchVars, fetchVars, config, trPool, trCount, blob,
                   fetcherMu, now>>

\* A resolveReference that puts the new transport into the pool as soon as it
\* is made.
resolveReferenceAuthnStore(p) ==
    /\ rs[p].pc = "rrauthn"
    /\ \E authOK \in BOOLEAN :
          LET s  == rs[p]
              tr == [name |-> Name(s.nref), id |-> trCount + 1]
          IN  IF ~authOK
              THEN /\ rs' = [rs EXCEPT ![p] =
                              wrapHostErr([s EXCEPT !.pool0 = <<>>],
                                          "failed to resolve ref", "redirect")]
                   /\ trPoolMu' = ""
                   /\ UNCHANGED <<trCount, trPool>>
              ELSE /\ trCount < MaxTr
                   /\ trCount' = trCount + 1
                   /\ trPool' = [trPool EXCEPT ![Name(s.nref)] = tr]
                   /\ rs' = [rs EXCEPT ![p] = [s EXCEPT !.new = tr, !.pc = "rrnew"]]
                   /\ UNCHANGED trPoolMu
    /\ UNCHANGED <<readerVars, prefetchVars, fetchVars, config, blob, fetcherMu, now>>

\* Lines 236-240: tr, err := authnTransport(ref, r.transport, r.keychain).
resolveReferenceAuthn(p) ==
    /\ rs[p].pc = "rrauthn"
    /\ \E authOK \in BOOLEAN :
          LET s  == rs[p]
              tr == [name |-> Name(s.nref), id |-> trCount + 1]
          IN  IF ~authOK
              THEN /\ rs' = [rs EXCEPT ![p] =
                              wrapHostErr([s EXCEPT !.pool0 = <<>>],
                                          "failed to resolve ref", "redirect")]
                   /\ trPoolMu' = ""
                   /\ UNCHANGED trCount
              ELSE /\ trCount < MaxTr
                   /\ trCount' = trCount + 1
                   /\ rs' = [rs EXCEPT ![p] = [s EXCEPT !.new = tr, !.pc = "rrnew"]]
                   /\ UNCHANGED trPoolMu
    /\ UNCHANGED <<readerVars, prefetchVars, fetchVars, config, trPool, blob, fetcherMu, now>>

\* Lines 241-244: redirect with the new transport.
resolveReferenceRedirect(p) ==
    /\ rs[p].pc = "rrnew"
    /\ \E st \in RedirectStatuses(rs[p].nref.host) :
          LET s   == rs[p]
              out == redirect(EndpointURL(s.nref, TheDigest), st)
          IN  IF out.err # nil
              THEN /\ rs' = [rs EXCEPT ![p] =
                              wrapHostErr([s EXCEPT !.pool0 = <<>>, !.new = NoTr],
                                          "failed to resolve ref", "redirect")]
                   /\ trPoolMu' = ""
              ELSE /\ rs' = [rs EXCEPT ![p] =
                              [s EXCEPT !.url = out.url, !.okTr = s.new, !.pc = "rrstore"]]
                   /\ UNCHANGED trPoolMu
    /\ UNCHANGED <<readerVars, prefetchVars, fetchVars, config, trPool, trCount, blob,
                   fetcherMu, now>>

\* A resolveReference that returns from the store without the Unlock.
resolveReferenceStoreNoUnlock(p) ==
    /\ rs[p].pc = "rrstore"
    /\ trPool' = [trPool EXCEPT ![Name(rs[p].nref)] = rs[p].new]
    /\ rs' = [rs EXCEPT ![p].pc = "pool", ![p].pool0 = <<>>, ![p].new = NoTr]
    /\ UNCHANGED <<readerVars, prefetchVars, fetchVars, config, trPoolMu, trCount, blob,
                   fetcherMu, now>>

\* Lines 246-249: r.trPool[ref.Name()] = tr; return url, nil.
resolveReferenceStore(p) ==
    /\ rs[p].pc = "rrstore"
    /\ trPool' = [trPool EXCEPT ![Name(rs[p].nref)] = rs[p].new]
    /\ rs' = [rs EXCEPT ![p].pc = "pool", ![p].pool0 = <<>>, ![p].new = NoTr]
    /\ trPoolMu' = ""
    /\ UNCHANGED <<readerVars, prefetchVars, fetchVars, config, trCount, blob, fetcherMu, now>>

resolveReference(p) ==
    resolveReferenceLock(p) \/ resolveReferenceLookup(p) \/ resolveReferencePooled(p)
        \/ resolveReferenceAuthn(p) \/ resolveReferenceRedirect(p)
        \/ resolveReferenceStore(p)

\* Lines 183-202: the transport of the reference, read under the pool mutex, and
\* the size probe with it; a successful probe ends the loop (rErr = nil; break).
resolveGetSize(p) ==
    /\ rs[p].pc = "pool"
    /\ CanLock(trPoolMu)
    /\ \E o \in getSizeOutcomes :
          LET s  == rs[p]
              tr == trPool[Name(s.nref)]
              t  == [s EXCEPT !.tr = tr,
                              !.contacted = Append(s.contacted, s.hosts[s.i].Host)]
          IN  rs' = [rs EXCEPT ![p] =
                       IF tr.id = 0
                       THEN wrapHostErr(s, "transport not found in pool", "pool")
                       ELSE IF o.err # nil
                       THEN wrapHostErr(t, "failed to get size", "size")
                       ELSE resolveResult(
                               [t EXCEPT !.size = o.size, !.rErr = nil,
                                         !.tried = Append(t.tried, "ok"),
                                         !.probe = [host |-> t.hosts[t.i].Host,
                                                    size |-> o.size]])]
    /\ UNCHANGED <<readerVars, prefetchVars, fetchVars, config, trPool, trPoolMu, trCount, blob,
                   fetcherMu, now>>

resolve(p) == resolveReferenceLock(p) \/ resolveReferenceBody(p) \/ resolveGetSize(p)

\* ---- Resolve (lines 87-117) -----------------------------------------------
ResolveCall(p) ==
    /\ rs[p].pc = "idle"
    /\ \E ref \in Refs :
          rs' = [rs EXCEPT ![p] =
                   resolveEnter([IdleProc EXCEPT !.op = "Resolve", !.ref = ref], config)]
    /\ UNCHANGED <<readerVars, prefetchVars, fetchVars, config, trPool, trPoolMu, trCount, blob,
                   fetcherMu, now>>

\* Lines 92-116: the blob Resolve builds from resolve's fetcher and size.
newBlob(fetcher, sz, cfg, t) ==
    [exists |-> TRUE, fetcher |-> fetcher, size |-> sz,
     chunkSize |-> IF cfg.ChunkSize = 0 THEN defaultChunkSize ELSE cfg.ChunkSize,
     lastCheck |-> t,
     checkInterval |-> IF cfg.CheckAlways THEN 0
                       ELSE IF cfg.ValidInterval = 0 THEN defaultValidInterval
                       ELSE cfg.ValidInterval,
     half |-> FALSE]

\* The clock after a reading of time.Now(): every reading is later than the one
\* before, up to MaxTime.
timeAfter(t) == Min(t + 1, MaxTime)

\* Lines 88-116.  The model follows one blob: the first one Resolve returns.
ResolveReturn(p) ==
    /\ rs[p].pc = "ret" /\ rs[p].op = "Resolve"
    /\ rs' = [rs EXCEPT ![p].pc = "done"]
    /\ IF rs[p].err # nil \/ blob.exists
       THEN UNCHANGED <<blob, now>>
       ELSE /\ \E cfg \in BlobConfigs :
                  blob' = newBlob(rs[p].fetcher, rs[p].size, cfg, now)
            /\ now' = timeAfter(now)
    /\ UNCHANGED <<readerVars, prefetchVars, fetchVars, config, trPool, trPoolMu, trCount,
                   fetcherMu>>

\* ---- Refresh (lines 119-140) ----------------------------------------------
\* Lines 120-123: the target is not a *blob.
RefreshInvalid(p) ==
    /\ rs[p].pc = "idle"
    /\ rs' = [rs EXCEPT ![p] = [IdleProc EXCEPT !.pc = "done", !.op = "Refresh",
                    !.err = Errorf(<<"", "", "invalid type of blob">>)]]
    /\ UNCHANGED <<readerVars, prefetchVars, fetchVars, config, trPool, trPoolMu, trCount, blob,
                   fetcherMu, now>>

RefreshCall(p) ==
    /\ rs[p].pc = "idle"
    /\ blob.exists
    /\ rs' = [rs EXCEPT ![p] = [IdleProc EXCEPT !.pc = "lock", !.op = "Refresh"]]
    /\ UNCHANGED <<readerVars, prefetchVars, fetchVars, config, trPool, trPoolMu, trCount, blob,
                   fetcherMu, now>>

\* Lines 126-128: b.fetcherMu.Lock(), then b.fetcher.refresh(), which is
\* resolve(f.ref, f.digest) (lines 342-344).
RefreshLock(p) ==
    /\ rs[p].pc = "lock"
    /\ CanLock(fetcherMu)
    /\ fetcherMu' = p
    /\ rs' = [rs EXCEPT ![p] =
                resolveEnter([rs[p] EXCEPT !.ref = blob.fetcher.ref, !.was = blob],
                             config)]
    /\ UNCHANGED <<readerVars, prefetchVars, fetchVars, config, trPool, trPoolMu, trCount, blob, now>>

\* Refresh without the comparison of the sizes.
RefreshCheckNoSize(p) ==
    /\ rs[p].pc = "ret" /\ rs[p].op = "Refresh"
    /\ LET s == rs[p] IN
       IF s.err # nil
       THEN /\ rs' = [rs EXCEPT ![p].pc = "done"]
            /\ fetcherMu' = ""
            /\ UNCHANGED blob
       ELSE /\ rs' = [rs EXCEPT ![p].pc = "lastcheck"]
            /\ blob' = [blob EXCEPT !.fetcher = s.fetcher, !.half = TRUE]
            /\ UNCHANGED fetcherMu
    /\ UNCHANGED <<readerVars, prefetchVars, fetchVars, config, trPool, trPoolMu, trCount, now>>

\* Lines 129-136: an error of refresh or another size ends Refresh (the deferred
\* Unlock runs); otherwise b.fetcher = new.
RefreshCheck(p) ==
    /\ rs[p].pc = "ret" /\ rs[p].op = "Refresh"
    /\ LET s == rs[p] IN
       IF s.err # nil
       THEN /\ rs' = [rs EXCEPT ![p].pc = "done"]
            /\ fetcherMu' = ""
            /\ UNCHANGED blob
       ELSE IF s.size # blob.size
       THEN /\ rs' = [rs EXCEPT ![p].pc = "done",
                                ![p].err = Errorf(<<"", "", "Invalid size of new blob">>)]
            /\ fetcherMu' = ""
            /\ UNCHANGED blob
       ELSE /\ rs' = [rs EXCEPT ![p].pc = "lastcheck"]
            /\ blob' = [blob EXCEPT !.fetcher = s.fetcher, !.half = TRUE]
            /\ UNCHANGED fetcherMu
    /\ UNCHANGED <<readerVars, prefetchVars, fetchVars, config, trPool, trPoolMu, trCount, now>>

\* Lines 137-139: b.lastCheck = time.Now(); return nil (the deferred Unlock runs).
RefreshLastCheck(p) ==
    /\ rs[p].pc = "lastcheck"
    /\ blob' = [blob EXCEPT !.lastCheck = now, !.half = FALSE]
    /\ rs' = [rs EXCEPT ![p].pc = "done", ![p].err = nil]
    /\ fetcherMu' = ""
    /\ now' = timeAfter(now)
    /\ UNCHANGED <<readerVars, prefetchVars, fetchVars, config, trPool, trPoolMu, trCount>>

\* The caller takes the result; it may call again.
ResolverReturn(p) ==
    /\ rs[p].pc = "done"
    /\ rs' = [rs EXCEPT ![p] = IdleProc]
    /\ UNCHANGED <<readerVars, prefetchVars, fetchVars, config, trPool, trPoolMu, trCount, blob,
                   fetcherMu, now>>

Resolve(p) == ResolveCall(p) \/ ResolveReturn(p)
Refresh(p) ==
    RefreshInvalid(p) \/ RefreshCall(p) \/ RefreshLock(p) \/ RefreshCheck(p)
        \/ RefreshLastCheck(p)

(***************************************************************************)
(* Specifications.                                                          *)
(***************************************************************************)
ReaderIdle ==
    /\ cache = [id \in ChunkIDs |-> NoData]
    /\ ra = [r \in Readers |-> IdleRead]
    /\ ct = IdleCache
    /\ toc = PlainTOC
    /\ PrefetchIdle

FetchIdle == ft = IdleFetch

ResolverIdle ==
    /\ trPool = [n \in PoolNames |-> NoTr]
    /\ trPoolMu = ""
    /\ trCount = 0
    /\ blob = NoBlob
    /\ fetcherMu = ""
    /\ now = 0
    /\ rs = [p \in Procs |-> IdleProc]

\* fetcher.fetch.
InitFetch == ReaderIdle /\ FetchIdle /\ ResolverIdle /\ config = <<>>
NextFetch == fetch
SpecFetch == InitFetch /\ [][NextFetch]_vars

\* The Resolve and Refresh calls of one caller, over every mirror list.
InitResolver == ReaderIdle /\ FetchIdle /\ ResolverIdle /\ config \in MirrorLists
NextResolver ==
    Resolve("p1") \/ Refresh("p1") \/ resolve("p1") \/ ResolverReturn("p1")
SpecResolver == InitResolver /\ [][NextResolver]_vars

\* Concurrent Resolve and Refresh calls on a Resolver without mirrors.
InitConcurrent == ReaderIdle /\ FetchIdle /\ ResolverIdle /\ config = <<>>
NextConcurrent ==
    \E p \in Procs : Resolve(p) \/ Refresh(p) \/ resolve(p) \/ ResolverReturn(p)
SpecConcurrent == InitConcurrent /\ [][NextConcurrent]_vars

\* Concurrent Resolve and Refresh calls, resolveReference statement by
\* statement, on a Resolver without mirrors.
InitPool == ReaderIdle /\ FetchIdle /\ ResolverIdle /\ config = <<>>
NextPool ==
    \E p \in Procs :
        Resolve(p) \/ Refresh(p) \/ resolveReference(p) \/ resolveGetSize(p)
            \/ ResolverReturn(p)
SpecPool == InitPool /\ [][NextPool]_vars

\* One caller of Resolve and Refresh and one of Refresh, every call being
\* scheduled as long as it runs, every HTTP and authentication operation
\* returning, and sync.Mutex handing the mutex to every caller that keeps
\* waiting for it (a Lock that is possible again and again is taken).
RunPool(p) ==
    \/ ResolveReturn(p) \/ RefreshLock(p) \/ RefreshCheck(p) \/ RefreshLastCheck(p)
    \/ resolveReference(p) \/ resolveGetSize(p)
NextLocks ==
    \/ Resolve("p1")
    \/ \E p \in Procs :
          Refresh(p) \/ resolveReference(p) \/ resolveGetSize(p) \/ ResolverReturn(p)
SpecLocksFair ==
    /\ InitPool /\ [][NextLocks]_vars
    /\ \A p \in Procs : SF_vars(RunPool(p))

(***************************************************************************)
(* Specifications of the reader.                                            *)
(***************************************************************************)
ReaderInit ==
    /\ cache \in InitialCaches
    /\ ra = [r \in Readers |-> IdleRead]
    /\ ct = IdleCache
    /\ toc = PlainTOC
    /\ PrefetchIdle
    /\ FetchIdle /\ ResolverIdle /\ config = <<>>

\* Concurrent ReadAt calls only.
NextReadAt == \E r \in Readers : ReadAt(r)
SpecReadAt == ReaderInit /\ [][NextReadAt]_vars

\* The ReadAt calls of one caller interleaved with CacheTarGzWithReader.
NextReader == ReadAt("r1") \/ CacheTarGzWithReader
SpecReader == ReaderInit /\ [][NextReader]_vars

\* The ReadAt calls of one caller that is scheduled as long as its call runs and
\* whose underlying reads return.
NextReadAtFair == ReadAt("r1")
SpecReadAtFair ==
    /\ ReaderInit /\ [][NextReadAtFair]_vars
    /\ WF_vars(ReadAtFetch("r1") \/ ReadAtMiss("r1"))

\* The caches PrefetchWithReader starts on: per file nothing, or an entry cut
\* short for each of its chunks.
PrefetchCaches ==
    {c \in InitialCaches :
        \A f \in FileNames : \A i, j \in 1..Len(Chunks[f]) :
            c[genID(Digest[f], Chunks[f][i].ChunkOffset, Chunks[f][i].ChunkSize)].present
              = c[genID(Digest[f], Chunks[f][j].ChunkOffset, Chunks[f][j].ChunkSize)].present}

\* PrefetchWithReader over every TOC, with one waiter.
InitPrefetch ==
    /\ cache \in PrefetchCaches
    /\ ra = [r \in Readers |-> IdleRead]
    /\ ct = IdleCache
    /\ toc \in TOCs
    /\ PrefetchIdle
    /\ FetchIdle /\ ResolverIdle /\ config = <<>>
NextPrefetch ==
    \/ PrefetchWithReader(0..MaxPrefetch)
    \/ CacheTarGzNext \/ CacheTarGzChunk \/ CacheTarGzRead
    \/ WaitForPrefetchCompletion("w1")
SpecPrefetch == InitPrefetch /\ [][NextPrefetch]_vars

\* Concurrent WaitForPrefetchCompletion calls against the prefetcher of the
\* layer of PlainTOC.
InitWait == ReaderIdle /\ FetchIdle /\ ResolverIdle /\ config = <<>>
NextWait ==
    \/ PrefetchWithReader({0, LayerSize})
    \/ CacheTarGzNext \/ CacheTarGzChunk \/ CacheTarGzRead
    \/ \E w \in Waiters : WaitForPrefetchCompletion(w)
SpecWait == InitWait /\ [][NextWait]_vars

(***************************************************************************)
(* Properties of the reader.                                                *)
(***************************************************************************)
\* What ReadAt(p, offset) owes its caller: n bytes, the file's bytes from offset.
WantN(s) == Min(s.len, Max(0, Len(FileBytes[s.name]) - s.offset))
RightBytes(s) ==
    /\ s.n = WantN(s)
    /\ s.p = Slice(FileBytes[s.name], s.offset, s.n)

\* The chunks of the file of call s that overlap the bytes it returned.
Touched(s) ==
    {i \in 1..Len(Chunks[s.name]) :
        /\ s.n > 0
        /\ Chunks[s.name][i].ChunkOffset < s.offset + s.n
        /\ s.offset < Chunks[s.name][i].ChunkOffset + Chunks[s.name][i].ChunkSize}

IdOf(name, i) == genID(Digest[name], Chunks[name][i].ChunkOffset, Chunks[name][i].ChunkSize)

\* C1: in every cache state that ReadAt and CacheTarGzWithReader calls on the same
\* reader can produce, a ReadAt call whose underlying reads did not fail returns
\* n = min(len(p), fileLength - offset) and the file's bytes [offset, offset+n).
C1_ReadAtBytesAnyCache ==
    \A r \in Readers : ra[r].pc = "done" /\ ra[r].err = "" => RightBytes(ra[r])

RECURSIVE RunAlone(_, _)
\* ReadAt run to its end by one caller alone on cache c, every underlying read
\* succeeding.
RunAlone(s, c) ==
    IF s.pc = "loop" THEN RunAlone(ReadAtStep(s, c), c)
    ELSE IF s.pc = "miss"
    THEN LET id   == genID(Digest[s.name], s.ce.ChunkOffset, s.ce.ChunkSize)
             data == ChunkBytes(s.name, s.ce)
         IN  RunAlone(CopyChunk(s, data), Add(c, id, data))
    ELSE s

EmptyCache == [id \in ChunkIDs |-> NoData]

\* C2: under every interleaving of concurrent ReadAt calls, a call that ends
\* without error returns what the same call returns when run alone, and the cache
\* entry of every chunk it touched holds that chunk's bytes.
C2_ConcurrentReadAt ==
    \A r \in Readers :
        ra[r].pc = "done" /\ ra[r].err = "" =>
            LET alone == RunAlone([IdleRead EXCEPT !.pc = "loop", !.name = ra[r].name,
                                      !.len = ra[r].len, !.offset = ra[r].offset],
                                  EmptyCache)
            IN  /\ ra[r].n = alone.n
                /\ ra[r].p = alone.p
                /\ \A i \in Touched(ra[r]) :
                      cache[IdOf(ra[r].name, i)] =
                          [present |-> TRUE,
                           data |-> ChunkBytes(ra[r].name, Chunks[ra[r].name][i])]

\* Two callers missed on the same chunk: one has added it and returned, the
\* other is about to read and add it again.
C2_Witness ==
    /\ ra["r1"].pc = "done" /\ ra["r1"].err = "" /\ ra["r1"].n > 0
    /\ ra["r2"].pc = "miss" /\ ra["r2"].name = ra["r1"].name
    /\ \E i \in Touched(ra["r1"]) :
          /\ Chunks[ra["r1"].name][i] = ra["r2"].ce
          /\ cache[IdOf(ra["r1"].name, i)].present

\* C3: after a ReadAt that returns without error, every chunk that overlaps the
\* returned bytes is in the cache under its ID with exactly ChunkSize bytes; an
\* entry of another length met on the way was treated as a miss and overwritten.
C3_TouchedChunksCached ==
    \A r \in Readers :
        ra[r].pc = "done" /\ ra[r].err = "" =>
            \A i \in Touched(ra[r]) :
                /\ cache[IdOf(ra[r].name, i)].present
                /\ Len(cache[IdOf(ra[r].name, i)].data) = Chunks[ra[r].name][i].ChunkSize

\* A call over two chunks that met an entry of the wrong length has returned.
C3_Witness ==
    \E r \in Readers :
        /\ ra[r].pc = "done" /\ ra[r].err = "" /\ ra[r].short
        /\ Cardinality(Touched(ra[r])) >= 2

(***************************************************************************)
(* Properties of fetcher.fetch.                                             *)
(***************************************************************************)
Dummy == [b |-> 0, e |-> 0]

\* The response is 206 with a closed multipart body: the part of the dummy range,
\* then one part per requested region, each with that region's bytes.
FaithfulMultipart(f) ==
    /\ f.res.StatusCode = 206
    /\ f.res.ContentType = Multipart
    /\ f.res.final
    /\ f.res.parts = [i \in 1..(Len(f.requests) + 1) |-> PartOf((<<Dummy>> \o f.requests)[i])]

\* C4: fetch issues exactly one request, whose Range header is the dummy 0-0 and
\* then the requested regions in request order; when the server answers 206 with
\* the dummy's part and then one part per requested region, fetch returns without
\* error a mapping whose keys are exactly the requested regions, each value the
\* region's size() bytes.
C4_FetchMultipart ==
    /\ ft.pc # "idle" => ft.ranges = <<Dummy>> \o ft.requests /\ ft.requests # <<>>
    /\ ft.trips = (IF ft.pc \in {"handle", "done"} THEN 1 ELSE 0)
    /\ (ft.pc = "done" /\ FaithfulMultipart(ft)) =>
          /\ ft.err = nil
          /\ ft.data.nonnil
          /\ DOMAIN ft.data.m = {ft.requests[i] : i \in DOMAIN ft.requests}
          /\ \A reg \in DOMAIN ft.data.m :
                /\ Len(ft.data.m[reg]) = reg.e - reg.b + 1
                /\ ft.data.m[reg] = SubSeq(BlobData, reg.b + 1, reg.e + 1)

\* fetch has returned the mapping of two different regions, neither the dummy.
C4_Witness ==
    /\ ft.pc = "done" /\ FaithfulMultipart(ft) /\ ft.data.nonnil
    /\ Cardinality(DOMAIN ft.data.m) = 2
    /\ Dummy \notin DOMAIN ft.data.m

\* Part k of the body is the first whose length is not the size of the region
\* in its Content-Range; fetch reads it.
PartMismatch(res, k) ==
    /\ k \in 2..Len(res.parts)
    /\ \A j \in 2..k :
          /\ res.parts[j].ContentRange.ok
          /\ ~res.parts[j].readErr
          /\ (Len(res.parts[j].data) #
                 res.parts[j].ContentRange.e - res.parts[j].ContentRange.b + 1) <=> (j = k)

\* The length of a body fetch has read differs from its declared length.
SizeMismatch(res) ==
    \/ /\ res.StatusCode = 200
       /\ res.ContentLength.ok
       /\ Len(res.Body) # res.ContentLength.v
    \/ /\ res.StatusCode = 206
       /\ res.ContentType = Multipart
       /\ \E k \in 2..Len(res.parts) : PartMismatch(res, k)

\* C5: when the length of a received body differs from its declared length (a 200
\* body against Content-Length, a 206 part against the region of its
\* Content-Range), fetch returns a non-nil error and no mapping.
C5_SizeMismatchIsError ==
    (ft.pc = "done" /\ SizeMismatch(ft.res)) => (ft.err # nil /\ ~ft.data.nonnil)

\* C6: fetch returns a non-nil error for every response that is neither a 200 nor
\* a multipart 206: another status code, or a 206 whose Content-Type parses as a
\* media type that is not multipart.
C6_BadResponseIsError ==
    (/\ ft.pc = "done"
     /\ ft.res # NoResponse
     /\ \/ ft.res.StatusCode \notin {200, 206}
        \/ /\ ft.res.StatusCode = 206
           /\ ft.res.ContentType.ok
           /\ ~HasPrefixMultipart(ft.res.ContentType.mediaType))
    => ft.err # nil

(***************************************************************************)
(* Properties of Resolver.resolve, Resolve and Refresh.                     *)
(***************************************************************************)
\* resolve has returned to caller p, or its result has been passed on.
Returned(p) == rs[p].pc \in {"ret", "done", "lastcheck"} /\ rs[p].hosts # <<>>

\* The candidate hosts of domain D under the configured mirrors, in the order the
\* claim gives: the mirrors as configured, the domain last.
Candidates == config \o <<[Host |-> "D", Insecure |-> FALSE]>>

HostNames(hosts, k) == {hosts[j].Host : j \in 1..k}

\* C7: resolve tries the configured mirrors in order and the domain last; the
\* first host whose reference parses, whose redirect resolves and whose size
\* probe succeeds wins: resolve returns no error, the fetcher's reference, URL
\* and transport and the size are that host's, and no later host is contacted.
C7_FirstGoodHostWins ==
    \A p \in Procs :
        LET s == rs[p]
            k == Len(s.tried)
        IN  /\ s.hosts # <<>> => s.hosts = Candidates
            /\ k <= Len(s.hosts)
            /\ \A j \in 1..(k - 1) : s.tried[j] # "ok"
            /\ \A j \in 1..Len(s.contacted) :
                  s.contacted[j] \in HostNames(s.hosts, Min(Len(s.hosts), k + 1))
            /\ (Returned(p) /\ ~(s.op = "Refresh" /\ s.pc = "done")) =>
                  ((s.tried[k] = "ok") <=> (s.err = nil))
            /\ (s.pc = "ret" /\ k > 0 /\ s.tried[k] = "ok") =>
                  LET h == s.hosts[k] IN
                  /\ s.err = nil
                  /\ s.fetcher.nref.host = h.Host
                  /\ s.fetcher.nref.insecure = h.Insecure
                  /\ s.fetcher.url.registry = h.Host
                  /\ s.fetcher.url.scheme = (IF h.Insecure THEN "http" ELSE "https")
                  /\ s.fetcher.tr.name = <<h.Host, "img">>
                  /\ s.fetcher.tr.id # 0
                  /\ s.probe.host = h.Host
                  /\ s.size = s.probe.size
                  /\ \A j \in 1..Len(s.contacted) : s.contacted[j] \in HostNames(s.hosts, k)

\* resolve has returned the fetcher of the second mirror after the first failed,
\* with the domain behind them.
C7_Witness ==
    /\ rs["p1"].pc = "ret" /\ rs["p1"].err = nil
    /\ Len(rs["p1"].hosts) = 3
    /\ rs["p1"].tried = <<"redirect", "ok">>
    /\ rs["p1"].fetcher.nref.host = "B"

RECURSIVE NamedHosts(_)
\* The hosts an error chain names, innermost message first.
NamedHosts(err) ==
    IF err = <<>> THEN <<>>
    ELSE IF err[1][1] = "host" THEN Append(NamedHosts(Tail(err)), err[1][2])
    ELSE NamedHosts(Tail(err))

\* C8: Resolve returns an error exactly when every candidate host has been tried
\* and has failed; the error then names every host, in the order they were tried,
\* and no fetcher (and so no blob) is returned.
C8_ErrorIffAllHostsFail ==
    \A p \in Procs :
        LET s == rs[p] IN
        (s.op = "Resolve" /\ s.pc \in {"ret", "done"}) =>
            /\ (s.err # nil) <=>
                  (/\ Len(s.tried) = Len(s.hosts)
                   /\ \A j \in 1..Len(s.tried) : s.tried[j] # "ok")
            /\ (s.err # nil) =>
                  /\ NamedHosts(s.err) = [j \in 1..Len(s.hosts) |-> s.hosts[j].Host]
                  /\ s.fetcher = NoFetcher
                  /\ s.size = 0
            /\ (s.err # nil /\ s.hosts # <<>>) =>
                  /\ s.hosts = Candidates
                  /\ s.err[1] = <<"", "", "cannot resolve ref">>

\* Resolve has failed after three hosts, each for a reason of its own.
C8_Witness ==
    /\ rs["p1"].op = "Resolve" /\ rs["p1"].pc = "done" /\ rs["p1"].err # nil
    /\ rs["p1"].tried = <<"redirect", "size", "redirect">>

\* C9: a Refresh that fails, because re-resolving fails or because the probed
\* size is not the blob's recorded size, leaves the blob (fetcher, size,
\* lastCheck) as it was when Refresh began; a Refresh that installs a fetcher
\* probed the recorded size; the size of the blob never changes.
C9_RefreshFrame ==
    [][\A p \in Procs :
          /\ blob.exists => (blob'.exists /\ blob'.size = blob.size)
          /\ (rs[p].op = "Refresh" /\ rs[p].pc = "ret" /\ rs'[p].pc = "done") =>
                /\ rs'[p].err # nil
                /\ blob' = blob
                /\ blob'.fetcher = rs[p].was.fetcher
                /\ blob'.size = rs[p].was.size
                /\ blob'.lastCheck = rs[p].was.lastCheck
          /\ (rs[p].op = "Refresh" /\ rs[p].pc = "ret" /\ rs'[p].pc = "lastcheck") =>
                /\ rs[p].err = nil
                /\ rs[p].probe.size = blob.size
                /\ blob'.fetcher = rs[p].fetcher
                /\ blob'.fetcher # NoFetcher
      ]_vars

\* A Refresh has ended with size-changed while another caller is in Refresh.
C9_Witness ==
    \E p, q \in Procs :
        /\ p # q
        /\ rs[p].op = "Refresh" /\ rs[p].pc = "done"
        /\ rs[p].err = Errorf(<<"", "", "Invalid size of new blob">>)
        /\ rs[p].probe.size # blob.size
        /\ blob.fetcher = rs[p].was.fetcher
        /\ rs[q].op = "Refresh" /\ rs[q].pc \in {"lock", "rr", "rrbody", "pool"}

\* Caller p is between reading the old fetcher and the end of Refresh.
InRefresh(p) ==
    rs[p].op = "Refresh" /\ rs[p].pc \in {"rr", "rrbody", "pool", "ret", "lastcheck"}

\* C10: at most one Refresh is between reading the old fetcher and installing the
\* new one, and it holds the mutex; a new fetcher with the old lastCheck exists
\* only within the hold that installs both, so every caller that takes the mutex
\* finds a fetcher and a lastCheck installed together, and they stay as it found
\* them until it installs its own.
C10_RefreshSerialized ==
    /\ \A p, q \in Procs : (InRefresh(p) /\ InRefresh(q)) => p = q
    /\ \A p \in Procs : InRefresh(p) => fetcherMu = p
    /\ blob.half => \E p \in Procs : rs[p].pc = "lastcheck" /\ fetcherMu = p
    /\ \A p \in Procs :
          (InRefresh(p) /\ rs[p].pc # "lastcheck") =>
              (~rs[p].was.half /\ blob = rs[p].was)

\* One caller has installed the new fetcher and not yet lastCheck; the other
\* waits for the mutex.
C10_Witness ==
    /\ rs["p1"].pc = "lastcheck" /\ blob.half
    /\ rs["p2"].op = "Refresh" /\ rs["p2"].pc = "lock"

(***************************************************************************)
(* Properties of PrefetchWithReader and WaitForPrefetchCompletion.          *)
(***************************************************************************)
Running == {"lookup", "read", "cache"}

\* C11: PrefetchWithReader sets the in-progress flag on entry; every exit path
\* (no-prefetch landmark, bad landmark offset, read failure, caching error,
\* success) goes through the deferred clear of the flag and then the Broadcast,
\* which wakes every goroutine in Wait, before the call returns.
C11_FlagSetAndCleared ==
    [][/\ (pf.pc = "idle" /\ pf'.pc # "idle") => prefetchInProgress'
       /\ (pf.pc \in Running /\ pf'.pc \notin Running) => pf'.pc = "clear"
       /\ (pf.pc = "clear" /\ pf'.pc # "clear") =>
             (pf'.pc = "bcast" /\ ~prefetchInProgress')
       /\ (pf.pc = "bcast" /\ pf'.pc # "bcast") =>
             /\ pf'.pc = "done"
             /\ ~prefetchInProgress'
             /\ \A w \in Waiters : wt[w].g = "wait" => wt'[w].g = "woken"
       /\ (pf'.pc = "done" /\ pf.pc # "done") => pf.pc = "bcast"
       /\ pf'.pc = "done" =>
             pf'.exit \in {"noprefetch", "badlandmark", "read", "caching", "success"}
      ]_vars

\* PrefetchWithReader has returned a caching error, and its Broadcast has woken
\* the waiting goroutine.
C11_Witness ==
    /\ pf.pc = "done" /\ pf.exit = "caching" /\ pf.ret # ""
    /\ ~prefetchInProgress
    /\ wt["w1"].g = "woken" /\ wt["w1"].by = "pf"

\* C12: WaitForPrefetchCompletion returns nil only when a PrefetchWithReader has
\* been called and has exited: never before any prefetch has started, never
\* while one is running.
C12_NilOnlyAfterPrefetchExit ==
    [][\A w \in Waiters :
          (wt[w].pc = "select" /\ wt'[w].pc = "done" /\ wt'[w].err = "") =>
              (pf.exited /\ pf.pc \notin Running)
      ]_vars

\* C13: a WaitForPrefetchCompletion that times out clears the in-progress flag,
\* returns the timeout error, and its Broadcast wakes every goroutine in Wait;
\* only a timeout gives that error; a call whose goroutine finds no prefetch in
\* progress goes on to its send without waiting on the condition.
C13_TimeoutReleasesAll ==
    [][\A w \in Waiters :
          /\ (wt[w].pc = "select" /\ wt'[w].pc = "tbcast") => ~prefetchInProgress'
          /\ (wt[w].pc = "tbcast" /\ wt'[w].pc # "tbcast") =>
                /\ wt'[w].pc = "done"
                /\ wt'[w].err = "timeout"
                /\ \A x \in Waiters : wt[x].g = "wait" => wt'[x].g = "woken"
          /\ (wt'[w].err = "timeout" /\ wt[w].err # "timeout") => wt[w].pc = "tbcast"
          /\ (wt[w].g = "test" /\ wt'[w].g # "test" /\ ~prefetchInProgress) =>
                wt'[w].g = "send"
      ]_vars

\* One call has timed out and its Broadcast has woken the goroutine of the other.
C13_Witness ==
    /\ wt["w1"].pc = "done" /\ wt["w1"].err = "timeout"
    /\ wt["w2"].pc = "select" /\ wt["w2"].g = "woken" /\ wt["w2"].by = "w1"

\* C14: once a prefetch has started on a Reader, the in-progress flag never goes
\* from cleared back to set.
C14_NoRestart ==
    [][(pf.started /\ ~prefetchInProgress) => ~prefetchInProgress']_vars

\* With .no.prefetch.landmark in the TOC (with or without .prefetch.landmark)
\* PrefetchWithReader reads nothing from the section reader, adds nothing to the
\* cache and returns nil; the goroutine of a WaitForPrefetchCompletion that runs
\* after it has returned does not wait on the condition.
NoPrefetchSkips ==
    /\ pf'.pc \notin {"read", "cache"}
    /\ cache' = cache
    /\ pf'.read = 0
    /\ pf'.pc = "done" =>
          (pf'.ret = "" /\ pf'.exit = "noprefetch" /\ cache' = pf'.was)
    /\ \A w \in Waiters :
          (wt[w].g = "test" /\ wt'[w].g # "test" /\ wt[w].after
             /\ pf.pc \in {"idle", "done"}) => wt'[w].g = "send"

\* C15 as stated: with .no.prefetch.landmark in the TOC PrefetchWithReader
\* reads nothing, caches nothing and returns nil, and a WaitForPrefetchCompletion
\* called after it has returned does not wait on the condition and returns nil.
C15_NoPrefetchLandmark ==
    [][toc.noPrefetch =>
          /\ NoPrefetchSkips
          /\ \A w \in Waiters :
                (wt[w].pc = "select" /\ wt'[w].pc # "select" /\ wt[w].after
                   /\ wt[w].g \in {"test", "send"}) =>
                      (wt'[w].pc = "done" /\ wt'[w].err = "")
      ]_vars

\* C15, amended: with .no.prefetch.landmark in the TOC PrefetchWithReader reads
\* nothing, caches nothing and returns nil; a WaitForPrefetchCompletion called
\* after it has returned does not wait on the condition, and returns nil when
\* the send of its goroutine is received: it leaves the select otherwise only
\* through its timer, which can fire before that send.
C15_NoPrefetchLandmarkUnlessTimeout ==
    [][toc.noPrefetch =>
          /\ NoPrefetchSkips
          /\ \A w \in Waiters :
                (wt[w].pc = "select" /\ wt'[w].pc # "select" /\ wt[w].after
                   /\ wt[w].g \in {"test", "send"}) =>
                      \/ wt[w].g = "send" /\ wt'[w].pc = "done" /\ wt'[w].err = ""
                      \/ wt'[w].pc = "tbcast" /\ wt'[w].g = wt[w].g
      ]_vars

\* Both landmarks are in the TOC, PrefetchWithReader has returned nil, and a
\* WaitForPrefetchCompletion called after that has returned nil, its goroutine
\* never woken from a Wait.
C15_Witness ==
    /\ toc.noPrefetch /\ toc.landmark.ok
    /\ pf.pc = "done" /\ pf.ret = "" /\ pf.read = 0 /\ cache = pf.was
    /\ wt["w1"].pc = "done" /\ wt["w1"].err = "" /\ wt["w1"].after
    /\ wt["w1"].by = ""

\* C16: PrefetchWithReader never reads more than the layer's size; when its read
\* succeeds it has read the landmark's TOC offset if there is a landmark,
\* whatever prefetchSize was passed, and min(prefetchSize, layer size) if there
\* is none; a landmark offset beyond the layer's size makes it fail with
\* bad-landmark, nothing read and the cache as it was.
C16_PrefetchedBytes ==
    /\ pf.read <= LayerSize
    /\ (pf.pc \in {"cache", "clear", "bcast", "done"}
          /\ pf.exit \notin {"noprefetch", "badlandmark", "read"}) =>
          pf.read = (IF toc.landmark.ok THEN toc.landmark.Offset
                     ELSE Min(pf.prefetchSize, LayerSize))
    /\ (pf.pc \in {"clear", "bcast", "done"} /\ ~toc.noPrefetch
          /\ toc.landmark.ok /\ toc.landmark.Offset > LayerSize) =>
          /\ pf.exit = "badlandmark"
          /\ pf.ret = "invalid landmark offset"
          /\ pf.read = 0
          /\ cache = pf.was

\* Without a landmark, a prefetchSize beyond the layer's size has been clamped.
C16_Witness ==
    /\ pf.pc = "done" /\ pf.exit = "success"
    /\ ~toc.landmark.ok
    /\ pf.prefetchSize > LayerSize
    /\ pf.read = LayerSize

\* Where chunk i of the file of tar entry e begins and ends in the layer: the
\* first chunk begins with the entry's header.
ChunkStart(e, i) ==
    LET ce == Chunks[TarEntries[e].Name][i]
    IN  EntryStart(e) + (IF ce.ChunkOffset = 0 THEN 0 ELSE 1 + ce.ChunkOffset)
ChunkEnd(e, i) ==
    LET ce == Chunks[TarEntries[e].Name][i]
    IN  EntryStart(e) + 1 + ce.ChunkOffset + ce.ChunkSize

FileEntries == {e \in 1..Len(TarEntries) : TarEntries[e].Name \in FileNames}

Cached(name, i) ==
    /\ cache[IdOf(name, i)].present
    /\ Len(cache[IdOf(name, i)].data) = Chunks[name][i].ChunkSize

PrefetchSucceeded == pf.pc = "done" /\ pf.ret = "" /\ ~toc.noPrefetch

\* C17 as stated: after PrefetchWithReader returns nil for a layer without the
\* no-prefetch landmark, every chunk of a file that begins within the prefetched
\* prefix is in the cache.
C17_ChunksStartingInPrefixCached ==
    PrefetchSucceeded =>
        \A e \in FileEntries : \A i \in 1..Len(Chunks[TarEntries[e].Name]) :
            ChunkStart(e, i) < pf.read => Cached(TarEntries[e].Name, i)

\* C17, amended: after PrefetchWithReader returns nil for a layer without the
\* no-prefetch landmark, every chunk of a file that lies entirely within the
\* prefetched prefix is in the cache under its ID with ChunkSize bytes; EOF and
\* ErrUnexpectedEOF from CacheTarGzWithReader are not reported as errors.
C17_ChunksWithinPrefixCached ==
    /\ PrefetchSucceeded =>
          \A e \in FileEntries : \A i \in 1..Len(Chunks[TarEntries[e].Name]) :
              ChunkEnd(e, i) <= pf.read => Cached(TarEntries[e].Name, i)
    /\ (pf.pc \in {"clear", "bcast", "done"} /\ pf.cerr \in {"EOF", "ErrUnexpectedEOF"}) =>
          pf.ret = ""

\* The prefix ended within the second chunk of b: the call returned nil, a and
\* the first chunk of b are cached, the second chunk of b is not.
C17_Witness ==
    /\ PrefetchSucceeded
    /\ pf.cerr = "ErrUnexpectedEOF"
    /\ pf.read = ChunkEnd(3, 2) - 1
    /\ Cached("a", 1) /\ Cached("b", 1) /\ ~Cached("b", 2)

\* C18: every entry CacheTarGzWithReader adds under the ID of a chunk holds the
\* file's bytes [ChunkOffset, ChunkOffset+ChunkSize), also when an earlier chunk
\* of the file was found in the cache and a later one was not.
C18_StoredBytesAreChunkBytes ==
    [][(ct.pc = "read" /\ ct'.pc = "chunk") =>
          LET name == TarEntries[ct.idx].Name
          IN  cache'[genID(Digest[name], ct.ce.ChunkOffset, ct.ce.ChunkSize)] =
                  [present |-> TRUE, data |-> ChunkBytes(name, ct.ce)]
      ]_vars

\* C19: no wake-up is lost: a goroutine is suspended in Wait only while the
\* prefetch it found in progress has not yet broadcast.
C19_NoLostWakeup ==
    \A w \in Waiters :
        wt[w].pc = "select" /\ wt[w].g = "wait" => pf.pc \notin {"idle", "done"}

\* C20: every access to the in-progress flag is made with the condition's lock
\* held by the one that makes it: the prefetcher's set and clear, the goroutine's
\* test, the timed-out caller's clear.
C20_FlagAccessUnderLock ==
    [][/\ (pf.pc = "idle" /\ pf'.pc # "idle") => condL = "pf"
       /\ (pf.pc = "clear" /\ pf'.pc # "clear") => condL = "pf"
       /\ \A w \in Waiters :
             /\ (wt[w].g = "test" /\ wt'[w].g # "test") => condL = w
             /\ (wt[w].pc = "select" /\ wt'[w].pc = "tbcast") => condL = w
      ]_vars

(***************************************************************************)
(* resolveReference and the transport pool.                                 *)
(***************************************************************************)
\* Caller p is between the Lock of line 219 and a return of resolveReference.
InResolveReference(p) ==
    rs[p].pc \in {"rrbody", "rrpooled", "rrauthn", "rrnew", "rrstore"}

\* resolveReference of p returns an error with this step.
ResolveReferenceFails(p) ==
    /\ InResolveReference(p)
    /\ rs'[p].pc \in {"rr", "ret"}

\* C21: resolveReference looks the pool up, redirects with the pooled
\* transport, creates a transport and stores it within one hold of the pool
\* mutex: a caller inside it holds the mutex and finds the pool, from its lookup
\* on, as it found it (no update of another caller gets in between, none is
\* lost).  The pool is only written by a resolveReference that returns
\* successfully, with the transport its redirect has just succeeded with, into
\* the entry of its reference; a resolveReference that fails leaves the pool as
\* it found it; a successful redirect with the pooled transport returns without
\* creating a transport and without writing the pool.
C21_ResolveReferenceAtomic ==
    [][ /\ \A p \in Procs :
             /\ InResolveReference(p) => trPoolMu = p
             /\ rs[p].pc \in {"rrpooled", "rrauthn", "rrnew", "rrstore"}
                   => trPool = rs[p].pool0
             /\ ResolveReferenceFails(p) /\ rs[p].pc # "rrbody"
                   => trPool' = rs[p].pool0
             /\ rs[p].pc = "rrpooled" /\ rs'[p].pc = "pool"
                   => /\ trCount' = trCount
                      /\ trPool' = trPool
                      /\ rs'[p].okTr = trPool[Name(rs[p].nref)]
                      /\ rs'[p].okTr.id # 0
        /\ trPool' # trPool
              => \E p \in Procs :
                    /\ rs[p].pc = "rrstore" /\ rs'[p].pc = "pool"
                    /\ rs[p].okTr.id # 0
                    /\ rs[p].okTr = rs[p].new
                    /\ trPool' = [rs[p].pool0 EXCEPT ![Name(rs[p].nref)] = rs[p].okTr]
      ]_vars

\* Two callers resolve the same reference: one has replaced the pooled
\* transport by a new one after a failed redirect with the pooled one, while the
\* other waits for the mutex.
C21_Witness ==
    \E p, q \in Procs :
        /\ p # q
        /\ rs[p].pc = "pool"
        /\ rs[p].okTr.id = 2
        /\ trPool[Name(rs[p].nref)] = rs[p].okTr
        /\ rs[q].pc = "rr"
        /\ rs[q].nref = rs[p].nref

(***************************************************************************)
(* Errors of the underlying read in file.ReadAt.                            *)
(***************************************************************************)
\* The ID of the chunk of the file of call s that starts at off.
IdAt(s, off) ==
    LET ce == ChunkEntryForOffset(s.name, off)
    IN  genID(Digest[s.name], ce.ChunkOffset, ce.ChunkSize)

\* The number of iterations of call s that dealt with the chunk at off.
Attempts(s, off) == Cardinality({k \in 1..Len(s.seen) : s.seen[k] = off})

\* C22: when the underlying read of a missed chunk fails with an error other
\* than EOF, ReadAt ends at once with (0, error): the call dealt with the chunk
\* in one iteration only, the cache is left as it was (nothing is added for the
\* chunk), and the chunks of the iterations before are still in the cache.
\* When the underlying read reports EOF the chunk is cached and the call goes
\* on; a call ends with an error only through a failed underlying read.
C22_ReadErrorSurfaced ==
    [][\A r \in Readers :
         LET s == ra[r]
             t == ra'[r]
         IN  /\ s.pc = "miss" /\ t.pc # "miss" /\ t.uerr = "other"
                   => /\ t.pc = "done" /\ t.n = 0 /\ t.err # ""
                      /\ cache' = cache
                      /\ Attempts(t, s.ce.ChunkOffset) = 1
                      /\ \A k \in 1..(Len(s.seen) - 1) :
                            cache'[IdAt(s, s.seen[k])].present
             /\ s.pc = "miss" /\ t.pc # "miss" /\ t.uerr = "EOF"
                   => /\ t.pc = "loop" /\ t.err = ""
                      /\ cache'[IdAt(s, s.ce.ChunkOffset)].present
             /\ s.pc # "done" /\ t.pc = "done" /\ t.err # ""
                   => s.pc = "miss" /\ t.uerr = "other"
      ]_vars

\* A call read and cached the first chunk of file b, and ended with an error
\* when the underlying read of the second chunk failed.
C22_Witness ==
    \E r \in Readers :
        /\ ra[r].pc = "done" /\ ra[r].err # "" /\ ra[r].n = 0
        /\ ra[r].uerr = "other"
        /\ ra[r].seen = <<0, 2>>
        /\ Len(cache[IdAt(ra[r], 0)].data) = 2
        /\ ~cache[IdAt(ra[r], 2)].present

(***************************************************************************)
(* Termination of file.ReadAt.                                              *)
(***************************************************************************)
\* The offsets in seq strictly increase.
StrictlyIncreasing(seq) == \A k \in 1..(Len(seq) - 1) : seq[k] < seq[k + 1]

\* C24: every ReadAt call ends.  Every iteration of its loop copies at least one
\* byte (nr strictly increases and never passes len(p)), the offsets of the
\* chunks of its iterations strictly increase, and the loop ends exactly when nr
\* has reached len(p) or no chunk contains offset+nr.
C24_ReadAtTerminates ==
    /\ [][\A r \in Readers :
            LET s == ra[r]
                t == ra'[r]
            IN  /\ s.pc \in {"loop", "miss"} /\ t.pc = "loop"
                      => /\ t.nr >= s.nr + 1
                         /\ t.nr <= t.len
                         /\ Len(t.p) = t.nr
                /\ s.pc = "loop" /\ t.pc = "miss" => t.nr = s.nr
                /\ s.pc = "loop" => StrictlyIncreasing(t.seen)
                /\ s.pc = "loop"
                      => ((t.pc = "done") <=>
                            (s.nr = s.len
                               \/ ~ChunkEntryForOffset(s.name, s.offset + s.nr).ok))
         ]_vars
    /\ \A r \in Readers : (ra[r].pc \in {"loop", "miss"}) ~> (ra[r].pc = "done")

\* A call over the last two chunks of file b has ended before its buffer was
\* full, no chunk containing offset+nr.
C24_Witness ==
    /\ ra["r1"].pc = "done" /\ ra["r1"].err = ""
    /\ ra["r1"].seen = <<2, 4>>
    /\ ra["r1"].n = 2 /\ ra["r1"].len = 3
    /\ ~ChunkEntryForOffset(ra["r1"].name, ra["r1"].offset + ra["r1"].nr).ok

(***************************************************************************)
(* The order of the locks of Resolve and Refresh.                           *)
(***************************************************************************)
\* The mutexes a caller holds where it takes one, and where it holds one.
LockOrder ==
    \A p \in Procs :
        /\ rs[p].pc = "lock" => trPoolMu # p /\ fetcherMu # p
        /\ rs[p].pc \in {"rr", "pool"} => trPoolMu # p
        /\ trPoolMu = p => InResolveReference(p)
        /\ fetcherMu = p =>
              /\ rs[p].op = "Refresh"
              /\ rs[p].pc \notin {"idle", "lock", "done"}

\* C23: Refresh takes the blob's fetcher mutex holding no mutex, and the pool
\* mutex is taken (by resolveReference, and by resolve for its pool read) only
\* by a caller that does not hold it, possibly holding the fetcher mutex: the
\* order is always fetcher mutex, then pool mutex.  The holder of the pool
\* mutex is inside resolveReference, where it waits for no mutex.  Hence no
\* call waits for ever: every call of Resolve or Refresh returns.
C23_LocksOrdered ==
    /\ []LockOrder
    /\ \A p \in Procs : (rs[p].pc \notin {"idle", "done"}) ~> (rs[p].pc = "done")

\* A Refresh that holds the fetcher mutex waits for the pool mutex, which a
\* concurrent Resolve holds inside resolveReference.
C23_Witness ==
    \E p, q \in Procs :
        /\ p # q
        /\ rs[p].op = "Refresh" /\ fetcherMu = p /\ rs[p].pc = "rr"
        /\ rs[q].op = "Resolve" /\ trPoolMu = q /\ rs[q].pc = "rrnew"
====
